---- MODULE Spec2Model ----
(***************************************************************************)
(* Player deduplication engine of basketball-be: the string-similarity     *)
(* kernel, the weighted scorer, the matcher, and the roster / bulk-import  *)
(* / merge workflows of PlayersService over the Prisma store.              *)
(*                                                                         *)
(* Text is a sequence of one-character strings.  A percentage p of the     *)
(* code (a float in 0..100) is held exactly as the integer p * ScoreScale. *)
(***************************************************************************)
EXTENDS Integers, Sequences, FiniteSets, TLC

\* Longest text the kernel is applied to; fixes ScoreScale.
MaxLen == 7

\* ----------------------------------------------------------------------
\* Small arithmetic helpers
\* ----------------------------------------------------------------------
Max2(a, b) == IF a >= b THEN a ELSE b

Min2(a, b) == IF a <= b THEN a ELSE b

Abs(a) == IF a < 0 THEN 0 - a ELSE a

\* body(v), with v evaluated once: a local constant of the code
With(v, body(_)) == CHOOSE r \in {body(x) : x \in {v}} : TRUE

\* Math.min of a set of numbers
SetMin(S) == CHOOSE m \in S : \A o \in S : m <= o

\* Math.max of a set of numbers
SetMax(S) == CHOOSE m \in S : \A o \in S : m >= o

RECURSIVE Gcd(_, _)
Gcd(a, b) == IF b = 0 THEN a ELSE Gcd(b, a % b)

RECURSIVE LcmUpTo(_)
LcmUpTo(n) == IF n <= 1 THEN 1 ELSE LET l == LcmUpTo(n - 1) IN (l * n) \div Gcd(l, n)

\* Every score of the kernel times ScoreScale is an integer, and so is every
\* weighted mean of the scorer: the kernel's denominators are maxLen, 3*len
\* and 6*matches (all at most MaxLen), the scorer divides weights that are
\* multiples of 5 by a total of 100.
ScoreScale == 120 * LcmUpTo(MaxLen)

\* p percent, scaled
Pct(p) == p * ScoreScale

\* ----------------------------------------------------------------------
\* Characters
\* ----------------------------------------------------------------------
UpperChars == {"A", "B", "D", "E", "H", "J", "L", "N", "O", "I", "R", "M", "T"}

\* String.prototype.toLowerCase on one character
LowerChar(c) ==
  CASE c = "A" -> "a" [] c = "B" -> "b" [] c = "D" -> "d" [] c = "E" -> "e"
    [] c = "H" -> "h" [] c = "J" -> "j" [] c = "L" -> "l" [] c = "N" -> "n"
    [] c = "O" -> "o" [] c = "I" -> "i" [] c = "R" -> "r" [] c = "M" -> "m"
    [] c = "T" -> "t" [] OTHER -> c

DigitChars == {"0", "1", "2", "3", "4", "5", "6", "7", "8", "9"}

DigitVal(c) ==
  CASE c = "0" -> 0 [] c = "1" -> 1 [] c = "2" -> 2 [] c = "3" -> 3 [] c = "4" -> 4
    [] c = "5" -> 5 [] c = "6" -> 6 [] c = "7" -> 7 [] c = "8" -> 8 [] c = "9" -> 9

\* regex \s
IsSpace(c) == c = " "

\* characters that are neither \w nor \s
PunctChars == {".", "'", "\"", "-", "@", ","}

\* regex \w
IsWord(c) == ~IsSpace(c) /\ c \notin PunctChars

ToLower(s) == [i \in 1..Len(s) |-> LowerChar(s[i])]

RECURSIVE TrimLeft(_)
TrimLeft(s) == IF s # <<>> /\ IsSpace(Head(s)) THEN TrimLeft(Tail(s)) ELSE s

RECURSIVE TrimRight(_)
TrimRight(s) ==
  IF s # <<>> /\ IsSpace(s[Len(s)]) THEN TrimRight(SubSeq(s, 1, Len(s) - 1)) ELSE s

\* String.prototype.trim
Trim(s) == TrimRight(TrimLeft(s))

\* replace(/\s+/g, ' ')
RECURSIVE CollapseSpaces(_)
CollapseSpaces(s) ==
  IF s = <<>> THEN <<>>
  ELSE IF IsSpace(Head(s))
       THEN <<" ">> \o CollapseSpaces(TrimLeft(s))
       ELSE <<Head(s)>> \o CollapseSpaces(Tail(s))

\* replace(/[^\w\s]/g, '')
StripPunct(s) == SelectSeq(s, LAMBDA c : IsWord(c) \/ IsSpace(c))

\* StringSimilarity.normalize
normalize(str) ==
  With(Trim(ToLower(str)), LAMBDA trimmed :
    With(CollapseSpaces(trimmed), LAMBDA collapsed : StripPunct(collapsed)))

\* ----------------------------------------------------------------------
\* StringSimilarity
\* ----------------------------------------------------------------------
levenshteinDistance(str1, str2) ==
  LET len1 == Len(str1)
      len2 == Len(str2)
      matrix[i \in 0..len1, j \in 0..len2] ==
        IF i = 0 THEN j
        ELSE IF j = 0 THEN i
        ELSE LET cost == IF str1[i] = str2[j] THEN 0 ELSE 1
             IN  With({matrix[i - 1, j] + 1, matrix[i, j - 1] + 1,
                       matrix[i - 1, j - 1] + cost}, SetMin)
  IN  matrix[len1, len2]

\* StringSimilarity.similarity, scaled
similarity(str1, str2) ==
  IF str1 = <<>> \/ str2 = <<>> THEN 0
  ELSE IF str1 = str2 THEN Pct(100)
  ELSE LET maxLen == Max2(Len(str1), Len(str2))
       IN  With(Trim(ToLower(str1)), LAMBDA s1 :
             With(Trim(ToLower(str2)), LAMBDA s2 :
               With(levenshteinDistance(s1, s2), LAMBDA distance :
                 (Pct(100) * (maxLen - distance)) \div maxLen)))

\* The greedy matching loop of jaro: [m1 |-> matched indices of str1,
\* m2 |-> matched indices of str2], indices 1-based.
RECURSIVE JaroMatches(_, _, _, _, _)
JaroMatches(str1, str2, matchWindow, i, acc) ==
  IF i > Len(str1) THEN acc
  ELSE LET start == Max2(0, (i - 1) - matchWindow)
           end == Min2((i - 1) + matchWindow + 1, Len(str2))
           free == {j \in (start + 1)..end : j \notin acc.m2 /\ str1[i] = str2[j]}
       IN  With(IF free = {} THEN acc
                ELSE [m1 |-> acc.m1 \cup {i}, m2 |-> acc.m2 \cup {SetMin(free)}],
                LAMBDA next : JaroMatches(str1, str2, matchWindow, i + 1, next))

\* The characters of s at the indices of set idx, in index order
RECURSIVE PickChars(_, _, _)
PickChars(s, idx, i) ==
  IF i > Len(s) THEN <<>>
  ELSE IF i \in idx THEN <<s[i]>> \o PickChars(s, idx, i + 1)
       ELSE PickChars(s, idx, i + 1)

\* jaro with the share of matches taken over str1 on both sides
jaroFirstLengthOnly(str1, str2) ==
  With((Max2(Len(str1), Len(str2)) \div 2) - 1, LAMBDA matchWindow :
    With(JaroMatches(str1, str2, matchWindow, 1, [m1 |-> {}, m2 |-> {}]), LAMBDA mm :
      With(<<PickChars(str1, mm.m1, 1), PickChars(str2, mm.m2, 1)>>, LAMBDA c :
        LET matches == Len(c[1])
            transpositions == Cardinality({k \in 1..matches : c[1][k] # c[2][k]})
        IN  IF matches = 0 THEN 0
            ELSE (  (ScoreScale * matches) \div Len(str1)
                  + (ScoreScale * matches) \div Len(str1)
                  + (ScoreScale * (2 * matches - transpositions)) \div (2 * matches)) \div 3)))

\* StringSimilarity.jaro, as jaro * ScoreScale (jaro in 0..1)
jaro(str1, str2) ==
  With((Max2(Len(str1), Len(str2)) \div 2) - 1, LAMBDA matchWindow :
    With(JaroMatches(str1, str2, matchWindow, 1, [m1 |-> {}, m2 |-> {}]), LAMBDA mm :
      With(<<PickChars(str1, mm.m1, 1), PickChars(str2, mm.m2, 1)>>, LAMBDA c :
        LET matches == Len(c[1])
            transpositions == Cardinality({k \in 1..matches : c[1][k] # c[2][k]})
        IN  IF matches = 0 THEN 0
            ELSE (  (ScoreScale * matches) \div Len(str1)
                  + (ScoreScale * matches) \div Len(str2)
                  + (ScoreScale * (2 * matches - transpositions)) \div (2 * matches)) \div 3)))

RECURSIVE CommonPrefix(_, _, _)
CommonPrefix(s1, s2, i) ==
  IF i <= Min2(Len(s1), Len(s2)) /\ i <= 4 /\ s1[i] = s2[i]
  THEN 1 + CommonPrefix(s1, s2, i + 1)
  ELSE 0

\* jaroWinkler with the test for an empty argument ahead of the test for equality
jaroWinklerEmptyFirst(str1, str2) ==
  IF str1 = <<>> \/ str2 = <<>> THEN 0
  ELSE IF str1 = str2 THEN Pct(100)
  ELSE With(Trim(ToLower(str1)), LAMBDA s1 :
         With(Trim(ToLower(str2)), LAMBDA s2 :
           With(jaro(s1, s2), LAMBDA j :
             LET prefix == CommonPrefix(s1, s2, 1)
             IN  100 * j + 10 * prefix * (ScoreScale - j))))

\* StringSimilarity.jaroWinkler, scaled
jaroWinkler(str1, str2) ==
  IF str1 = str2 THEN Pct(100)
  ELSE IF str1 = <<>> \/ str2 = <<>> THEN 0
  ELSE With(Trim(ToLower(str1)), LAMBDA s1 :
         With(Trim(ToLower(str2)), LAMBDA s2 :
           With(jaro(s1, s2), LAMBDA j :
             LET prefix == CommonPrefix(s1, s2, 1)
             IN  100 * j + 10 * prefix * (ScoreScale - j))))

\* StringSimilarity.compare, scaled
compare(str1, str2) ==
  With(normalize(str1), LAMBDA normalized1 :
    With(normalize(str2), LAMBDA normalized2 :
      With({similarity(normalized1, normalized2), jaroWinkler(normalized1, normalized2)},
           SetMax)))

\* ----------------------------------------------------------------------
\* Values of optional columns and DTO fields
\* ----------------------------------------------------------------------
\* null / undefined
Null == <<"NULL">>

\* null where a row or an object is expected
NullRec == [null |-> TRUE]

\* JavaScript truthiness of an optional string: neither undefined nor ""
Truthy(v) == v # Null /\ v # <<>>

\* A date is <<year, month-day>>; Date.getFullYear
FullYear(d) == d[1]

\* s.substring(0, n)
Substring0(s, n) == SubSeq(s, 1, Min2(n, Len(s)))

\* Prisma { startsWith: prefix, mode: "insensitive" }
StartsWithInsensitive(s, prefix) ==
  /\ Len(prefix) <= Len(s)
  /\ ToLower(SubSeq(s, 1, Len(prefix))) = ToLower(prefix)

\* Prisma { equals: v, mode: "insensitive" }
EqualsInsensitive(s, v) == ToLower(s) = ToLower(v)

\* ----------------------------------------------------------------------
\* PlayerDeduplicationService.compareHeight
\* ----------------------------------------------------------------------
IsDigitAt(h, i) == i >= 1 /\ i <= Len(h) /\ h[i] \in DigitChars

\* last index of the run of digits that starts at i
RECURSIVE DigitRunEnd(_, _)
DigitRunEnd(h, i) == IF IsDigitAt(h, i + 1) THEN DigitRunEnd(h, i + 1) ELSE i

\* parseInt(h.slice(i-1, k), 10)
RECURSIVE ParseInt(_, _, _)
ParseInt(h, i, k) == IF k < i THEN 0 ELSE 10 * ParseInt(h, i, k - 1) + DigitVal(h[k])

\* first index >= i that holds no character of set cs
RECURSIVE SkipChars(_, _, _)
SkipChars(h, i, cs) == IF i <= Len(h) /\ h[i] \in cs THEN SkipChars(h, i + 1, cs) ELSE i

\* (?:inches?|in|"|'') matches at index p (flag i)
UnitAt(h, p) ==
  \/ p + 1 <= Len(h) /\ LowerChar(h[p]) = "i" /\ LowerChar(h[p + 1]) = "n"
  \/ p <= Len(h) /\ h[p] = "\""
  \/ p + 1 <= Len(h) /\ h[p] = "'" /\ h[p + 1] = "'"

\* h.match(/(\d+)\s*(?:inches?|in|"|'')/i): the start indices of a match
InchesMatchStarts(h) ==
  {i \in 1..Len(h) : IsDigitAt(h, i) /\ UnitAt(h, SkipChars(h, DigitRunEnd(h, i) + 1, {" "}))}

\* normalizeHeight: inches, or -1 for null
normalizeHeight(h) ==
  With(InchesMatchStarts(h), LAMBDA inchesMatch :
    With({i \in 1..Len(h) : IsDigitAt(h, i)}, LAMBDA digits :
      IF inchesMatch # {}
      THEN With(SetMin(inchesMatch), LAMBDA i : ParseInt(h, i, DigitRunEnd(h, i)))
      ELSE IF digits # {}
      THEN \* h.match(/(\d+)['\s]*(\d+)?["\s]*/i)
           With(SetMin(digits), LAMBDA i :
             With(DigitRunEnd(h, i), LAMBDA k1 :
               With(SkipChars(h, k1 + 1, {"'", " "}), LAMBDA p :
                 LET inches == IF IsDigitAt(h, p)
                               THEN ParseInt(h, p, DigitRunEnd(h, p)) ELSE 0
                 IN  ParseInt(h, i, k1) * 12 + inches)))
      ELSE -1))

compareHeight(height1, height2) ==
  With(normalizeHeight(height1), LAMBDA h1 :
    With(normalizeHeight(height2), LAMBDA h2 :
      IF h1 > 0 /\ h2 > 0
      THEN LET diff == Abs(h1 - h2)
           IN  IF diff <= 1 THEN Pct(100)
               ELSE IF diff <= 3 THEN Pct(80)
               ELSE 0
      ELSE compare(height1, height2)))

\* ----------------------------------------------------------------------
\* PlayerDeduplicationService.calculatePlayerSimilarity
\* ----------------------------------------------------------------------
FUZZY_THRESHOLD == 75

W_firstName == 20

W_lastName == 20

W_dob == 20

W_nationality == 15

W_height == 10

W_email == 10

W_phone == 5

\* One field's contribution: [score |-> added to totalScore,
\* weight |-> added to totalWeight, fields |-> pushed on matchedFields]
FirstNamePart(candidate, existingPlayer) ==
  With(compare(candidate.firstName, existingPlayer.firstName), LAMBDA fnScore :
    [score |-> fnScore * W_firstName, weight |-> W_firstName,
     fields |-> IF fnScore >= Pct(90) THEN <<"firstName">> ELSE <<>>])

LastNamePart(candidate, existingPlayer) ==
  With(compare(candidate.lastName, existingPlayer.lastName), LAMBDA lnScore :
    [score |-> lnScore * W_lastName, weight |-> W_lastName,
     fields |-> IF lnScore >= Pct(90) THEN <<"lastName">> ELSE <<>>])

\* a date of birth that either side lacks is left out of the total weight
DobPartNeutral(candidate, existingPlayer) ==
  IF candidate.dateOfBirth # Null /\ existingPlayer.dateOfBirth # Null
  THEN IF candidate.dateOfBirth = existingPlayer.dateOfBirth
       THEN [score |-> Pct(100) * W_dob, weight |-> W_dob, fields |-> <<"dateOfBirth">>]
       ELSE IF FullYear(candidate.dateOfBirth) = FullYear(existingPlayer.dateOfBirth)
       THEN [score |-> Pct(50) * W_dob, weight |-> W_dob, fields |-> <<"birthYear">>]
       ELSE [score |-> 0, weight |-> W_dob, fields |-> <<>>]
  ELSE [score |-> 0, weight |-> 0, fields |-> <<>>]

DobPart(candidate, existingPlayer) ==
  IF candidate.dateOfBirth # Null /\ existingPlayer.dateOfBirth # Null
  THEN IF candidate.dateOfBirth = existingPlayer.dateOfBirth
       THEN [score |-> Pct(100) * W_dob, weight |-> W_dob, fields |-> <<"dateOfBirth">>]
       ELSE IF FullYear(candidate.dateOfBirth) = FullYear(existingPlayer.dateOfBirth)
       THEN [score |-> Pct(50) * W_dob, weight |-> W_dob, fields |-> <<"birthYear">>]
       ELSE [score |-> 0, weight |-> W_dob, fields |-> <<>>]
  ELSE [score |-> 0, weight |-> W_dob, fields |-> <<>>]

NationalityPart(candidate, existingPlayer) ==
  IF Truthy(candidate.nationality) /\ Truthy(existingPlayer.nationality)
  THEN With(compare(candidate.nationality, existingPlayer.nationality), LAMBDA natScore :
         [score |-> natScore * W_nationality, weight |-> W_nationality,
          fields |-> <<"nationality">> \o
                     (IF natScore >= Pct(90) THEN <<"nationality_match">> ELSE <<>>)])
  ELSE [score |-> 0, weight |-> W_nationality, fields |-> <<>>]

EmailPart(candidate, existingPlayer) ==
  IF Truthy(candidate.email) /\ Truthy(existingPlayer.email)
  THEN LET eScore == IF ToLower(candidate.email) = ToLower(existingPlayer.email)
                     THEN Pct(100) ELSE 0
       IN  [score |-> eScore * W_email, weight |-> W_email,
            fields |-> IF eScore = Pct(100) THEN <<"email">> ELSE <<>>]
  ELSE [score |-> 0, weight |-> W_email, fields |-> <<>>]

HeightPart(candidate, existingPlayer) ==
  IF Truthy(candidate.height) /\ Truthy(existingPlayer.height)
  THEN With(compareHeight(candidate.height, existingPlayer.height), LAMBDA hScore :
         [score |-> hScore * W_height, weight |-> W_height,
          fields |-> IF hScore >= Pct(90) THEN <<"height">> ELSE <<>>])
  ELSE [score |-> 0, weight |-> W_height, fields |-> <<>>]

\* phone.replace(/\D/g, "")
PhoneDigits(phone) == SelectSeq(phone, LAMBDA c : c \in DigitChars)

PhonePart(candidate, existingPlayer) ==
  IF Truthy(candidate.phone) /\ Truthy(existingPlayer.phone)
  THEN LET pScore == IF PhoneDigits(candidate.phone) = PhoneDigits(existingPlayer.phone)
                     THEN Pct(100) ELSE 0
       IN  [score |-> pScore * W_phone, weight |-> W_phone,
            fields |-> IF pScore = Pct(100) THEN <<"phone">> ELSE <<>>]
  ELSE [score |-> 0, weight |-> W_phone, fields |-> <<>>]

\* The parts in the order the code accumulates them
SimilarityParts(candidate, existingPlayer) ==
  << FirstNamePart(candidate, existingPlayer),
     LastNamePart(candidate, existingPlayer),
     DobPart(candidate, existingPlayer),
     NationalityPart(candidate, existingPlayer),
     EmailPart(candidate, existingPlayer),
     HeightPart(candidate, existingPlayer),
     PhonePart(candidate, existingPlayer) >>

RECURSIVE SumParts(_, _)
SumParts(parts, i) ==
  IF i > Len(parts) THEN [totalScore |-> 0, totalWeight |-> 0, matchedFields |-> <<>>]
  ELSE With(SumParts(parts, i + 1), LAMBDA rest :
         [totalScore |-> parts[i].score + rest.totalScore,
          totalWeight |-> parts[i].weight + rest.totalWeight,
          matchedFields |-> parts[i].fields \o rest.matchedFields])

calculatePlayerSimilarity(candidate, existingPlayer) ==
  With(SimilarityParts(candidate, existingPlayer), LAMBDA parts :
    With(SumParts(parts, 1), LAMBDA t :
      [score |-> IF t.totalWeight > 0 THEN t.totalScore \div t.totalWeight ELSE 0,
       matchedFields |-> t.matchedFields]))

\* ----------------------------------------------------------------------
\* PlayerDeduplicationService.findDuplicatePlayer
\* ----------------------------------------------------------------------
\* an exact-match query that also compares the email
ExactWhereSameEmail(candidate, p) ==
  /\ EqualsInsensitive(p.firstName, candidate.firstName)
  /\ EqualsInsensitive(p.lastName, candidate.lastName)
  /\ p.dateOfBirth = candidate.dateOfBirth
  /\ p.email = candidate.email

\* The where clause of the exact-match query
ExactWhere(candidate, p) ==
  /\ EqualsInsensitive(p.firstName, candidate.firstName)
  /\ EqualsInsensitive(p.lastName, candidate.lastName)
  /\ p.dateOfBirth = candidate.dateOfBirth

\* a prefilter whose empty filter {} admits every row when the candidate has no email
PrefilterWhereEmptyMatchesAll(candidate, p) ==
  \/ StartsWithInsensitive(p.lastName, Substring0(candidate.lastName, 2))
  \/ StartsWithInsensitive(p.firstName, Substring0(candidate.firstName, 2))
  \/ IF Truthy(candidate.email)
     THEN p.email # Null /\ EqualsInsensitive(p.email, candidate.email)
     ELSE TRUE

\* The where clause of the prefilter query.  Prisma drops the empty filter {}
\* of an OR list, so the email branch admits nothing without an email.
PrefilterWhere(candidate, p) ==
  \/ StartsWithInsensitive(p.lastName, Substring0(candidate.lastName, 2))
  \/ StartsWithInsensitive(p.firstName, Substring0(candidate.firstName, 2))
  \/ /\ Truthy(candidate.email)
     /\ p.email # Null
     /\ EqualsInsensitive(p.email, candidate.email)

\* a scoring loop that keeps the first row at or over the threshold
RECURSIVE BestMatchLoopFirst(_, _, _, _)
BestMatchLoopFirst(candidate, candidates, i, bestMatch) ==
  IF i > Len(candidates) THEN bestMatch
  ELSE LET player == candidates[i]
       IN  With(calculatePlayerSimilarity(candidate, player), LAMBDA sim :
             With(IF sim.score >= Pct(FUZZY_THRESHOLD) /\ bestMatch = NullRec
                  THEN [player |-> player, score |-> sim.score, fields |-> sim.matchedFields]
                  ELSE bestMatch,
                  LAMBDA next : BestMatchLoopFirst(candidate, candidates, i + 1, next)))

\* the loop without the threshold
RECURSIVE BestMatchLoopNoThreshold(_, _, _, _)
BestMatchLoopNoThreshold(candidate, candidates, i, bestMatch) ==
  IF i > Len(candidates) THEN bestMatch
  ELSE LET player == candidates[i]
       IN  With(calculatePlayerSimilarity(candidate, player), LAMBDA sim :
             With(IF bestMatch = NullRec \/ sim.score > bestMatch.score
                  THEN [player |-> player, score |-> sim.score, fields |-> sim.matchedFields]
                  ELSE bestMatch,
                  LAMBDA next : BestMatchLoopNoThreshold(candidate, candidates, i + 1, next)))

\* The scoring loop over the prefiltered rows: bestMatch, or NullRec
RECURSIVE BestMatchLoop(_, _, _, _)
BestMatchLoop(candidate, candidates, i, bestMatch) ==
  IF i > Len(candidates) THEN bestMatch
  ELSE LET player == candidates[i]
       IN  With(calculatePlayerSimilarity(candidate, player), LAMBDA sim :
             With(IF /\ sim.score >= Pct(FUZZY_THRESHOLD)
                     /\ (bestMatch = NullRec \/ sim.score > bestMatch.score)
                  THEN [player |-> player, score |-> sim.score, fields |-> sim.matchedFields]
                  ELSE bestMatch,
                  LAMBDA next : BestMatchLoop(candidate, candidates, i + 1, next)))

NoMatchResult ==
  [matchType |-> "NO_MATCH", existingPlayer |-> NullRec, similarityScore |-> 0,
   isDuplicate |-> FALSE, matchedFields |-> <<>>]

\* rows: the player table in the order the store returns it for this call
findDuplicatePlayer(candidate, rows) ==
  With(IF candidate.dateOfBirth # Null
       THEN SelectSeq(rows, LAMBDA p : ExactWhere(candidate, p))
       ELSE <<>>, LAMBDA exactMatches :
    IF exactMatches # <<>>
    THEN [matchType |-> "EXACT_MATCH", existingPlayer |-> exactMatches[1],
          similarityScore |-> Pct(100), isDuplicate |-> TRUE,
          matchedFields |-> <<"firstName", "lastName", "dateOfBirth">>]
    ELSE With(SelectSeq(rows, LAMBDA p : PrefilterWhere(candidate, p)), LAMBDA candidates :
           With(BestMatchLoop(candidate, candidates, 1, NullRec), LAMBDA bestMatch :
             IF bestMatch # NullRec
             THEN [matchType |-> "POTENTIAL_DUPLICATE", existingPlayer |-> bestMatch.player,
                   similarityScore |-> bestMatch.score, isDuplicate |-> TRUE,
                   matchedFields |-> bestMatch.fields]
             ELSE NoMatchResult)))

\* ----------------------------------------------------------------------
\* The store: the tables of the migration that the player workflows touch
\* ----------------------------------------------------------------------
\* Bounds of the model
\* teams that exist
NumTeams == 2

\* teams the calls of the roster workflows are made for
NumCalledTeams == 1

NumMatches == 2

MaxJersey == 1

MaxPlayers == 2

MaxPlayerTeams == 2

MaxMatchStats == 2

MaxMatchPlayers == 2

\* a merge writes at most once per membership and roster row, and three times more
MaxFaultAt == MaxPlayerTeams + MaxMatchPlayers + 3

Teams == 1..NumTeams

CalledTeams == 1..NumCalledTeams

Matches == 1..NumMatches

\* jersey 0 is a legal number (@Min(0) of the DTOs)
Jerseys == 0..MaxJersey

VARIABLES
  players,       \* table player: rows [id, firstName, lastName, email, height, phone, dateOfBirth, nationality]
  playerTeams,   \* table player_team: rows [id, playerId, teamId, jerseyNumber, isActive]
  matchStats,    \* table match_stat: rows [matchId, playerId, teamId], its unique key
  matchPlayers,  \* table match_player: rows [matchId, playerId, teamId], its unique key
  seq,           \* rows inserted so far into player and player_team (the next id)
  last,          \* the call that returned last: its name, arguments and outcome
  calls          \* the calls in flight, one per request handler: what each is about to write

vars == <<players, playerTeams, matchStats, matchPlayers, seq, last, calls>>

\* The store as one value, as a transaction sees it
Store ==
  [players |-> players, playerTeams |-> playerTeams, matchStats |-> matchStats,
   matchPlayers |-> matchPlayers, seq |-> seq]

EmptyStore ==
  [players |-> {}, playerTeams |-> {}, matchStats |-> {}, matchPlayers |-> {},
   seq |-> [player |-> 0, playerTeam |-> 0]]

SetStore(s) ==
  /\ players' = s.players
  /\ playerTeams' = s.playerTeams
  /\ matchStats' = s.matchStats
  /\ matchPlayers' = s.matchPlayers
  /\ seq' = s.seq

\* All orders in which the store may return the rows of set S
Orders(S) ==
  {o \in [1..Cardinality(S) -> S] : \A i, j \in 1..Cardinality(S) : i # j => o[i] # o[j]}

PlayerIds(s) == {p.id : p \in s.players}

\* prisma.player.findUnique({ where: { id } }): the row, or NullRec
FindPlayer(s, id) ==
  IF id \in PlayerIds(s) THEN CHOOSE p \in s.players : p.id = id ELSE NullRec

\* ---- statements inside prisma.$transaction --------------------------------
\* tx: [s |-> the store as the transaction sees it, err |-> "" or the error
\* thrown, budget |-> writes left before the injected store failure (0: none
\* is injected, k: the k-th write statement throws)]
TxBegin(s, fault) == [s |-> s, err |-> "", budget |-> fault]

\* One write statement: it throws the injected failure when its turn has
\* come, throws err when the database rejects it, and else yields store t.
TxWrite(tx, t, err) ==
  IF tx.err # "" THEN tx
  ELSE IF tx.budget = 1 THEN [tx EXCEPT !.err = "StoreUnavailable"]
  ELSE IF err # "" THEN [tx EXCEPT !.err = err]
  ELSE [s |-> t, err |-> "", budget |-> IF tx.budget = 0 THEN 0 ELSE tx.budget - 1]

\* What the transaction leaves in the store that stood at pre
TxCommitNoRollback(pre, tx) == tx.s

\* prisma.$transaction: commit when the callback returns, roll back when it throws
TxCommit(pre, tx) == IF tx.err # "" THEN pre ELSE tx.s

\* ----------------------------------------------------------------------
\* PlayersService.mergePlayers
\* ----------------------------------------------------------------------
ActiveTeamsOf(s, playerId) ==
  {pt \in s.playerTeams : pt.playerId = playerId /\ pt.isActive}

RostersOf(s, playerId) == {mp \in s.matchPlayers : mp.playerId = playerId}

\* step 1 without the look for the target's membership: every row is moved
RECURSIVE MergeTeamsLoopAlwaysMove(_, _, _, _)
MergeTeamsLoopAlwaysMove(tx, duplicateTeams, i, targetPlayerId) ==
  IF i > Len(duplicateTeams) \/ tx.err # "" THEN tx
  ELSE LET teamAssoc == duplicateTeams[i]
           row == CHOOSE pt \in tx.s.playerTeams : pt.id = teamAssoc.id
           t == [tx.s EXCEPT !.playerTeams =
                   (@ \ {row}) \cup {[row EXCEPT !.playerId = targetPlayerId]}]
       IN  With(TxWrite(tx, t, ""), LAMBDA next :
             MergeTeamsLoopAlwaysMove(next, duplicateTeams, i + 1, targetPlayerId))

\* step 1, one iteration per row of duplicateTeams
RECURSIVE MergeTeamsLoop(_, _, _, _)
MergeTeamsLoop(tx, duplicateTeams, i, targetPlayerId) ==
  IF i > Len(duplicateTeams) \/ tx.err # "" THEN tx
  ELSE LET teamAssoc == duplicateTeams[i]
           row == CHOOSE pt \in tx.s.playerTeams : pt.id = teamAssoc.id
           targetInTeam == \E pt \in tx.s.playerTeams :
                              /\ pt.playerId = targetPlayerId
                              /\ pt.teamId = teamAssoc.teamId
                              /\ pt.isActive
           moved == IF ~targetInTeam
                    THEN [row EXCEPT !.playerId = targetPlayerId]
                    ELSE [row EXCEPT !.isActive = FALSE]
           t == [tx.s EXCEPT !.playerTeams = (@ \ {row}) \cup {moved}]
       IN  With(TxWrite(tx, t, ""), LAMBDA next :
             MergeTeamsLoop(next, duplicateTeams, i + 1, targetPlayerId))

\* the stat rows of the duplicate stay behind
MergeStatsSkipped(tx, duplicatePlayerId, targetPlayerId) == tx

\* step 2: matchStat.updateMany under the unique key (match_id, player_id, team_id)
MergeStats(tx, duplicatePlayerId, targetPlayerId) ==
  IF tx.err # "" THEN tx
  ELSE LET mine == {ms \in tx.s.matchStats : ms.playerId = duplicatePlayerId}
           clash == \E a \in mine : \E b \in tx.s.matchStats :
                      /\ b.playerId = targetPlayerId
                      /\ b.matchId = a.matchId
                      /\ b.teamId = a.teamId
           t == [tx.s EXCEPT !.matchStats =
                   (@ \ mine) \cup {[ms EXCEPT !.playerId = targetPlayerId] : ms \in mine}]
       IN  TxWrite(tx, t, IF clash THEN "P2002" ELSE "")

\* step 3, one iteration per row of duplicateMatchPlayers
RECURSIVE MergeRostersLoop(_, _, _, _)
MergeRostersLoop(tx, duplicateMatchPlayers, i, targetPlayerId) ==
  IF i > Len(duplicateMatchPlayers) \/ tx.err # "" THEN tx
  ELSE LET mp == duplicateMatchPlayers[i]
           targetInMatch == \E o \in tx.s.matchPlayers :
                               o.matchId = mp.matchId /\ o.playerId = targetPlayerId
           t == IF ~targetInMatch
                THEN [tx.s EXCEPT !.matchPlayers =
                        (@ \ {mp}) \cup {[mp EXCEPT !.playerId = targetPlayerId]}]
                ELSE [tx.s EXCEPT !.matchPlayers = @ \ {mp}]
       IN  With(TxWrite(tx, t, ""), LAMBDA next :
             MergeRostersLoop(next, duplicateMatchPlayers, i + 1, targetPlayerId))

\* step 4: playerTeam.deleteMany({ where: { playerId } })
MergeDeleteTeams(tx, duplicatePlayerId) ==
  IF tx.err # "" THEN tx
  ELSE TxWrite(tx, [tx.s EXCEPT !.playerTeams = {pt \in @ : pt.playerId # duplicatePlayerId}], "")

\* player.delete; the foreign keys on player_id are ON DELETE CASCADE
DeletePlayerCascade(s, id) ==
  [s EXCEPT !.players = {p \in @ : p.id # id},
            !.playerTeams = {pt \in @ : pt.playerId # id},
            !.matchStats = {ms \in @ : ms.playerId # id},
            !.matchPlayers = {mp \in @ : mp.playerId # id}]

\* the duplicate record is kept
MergeDeletePlayerSkipped(tx, duplicatePlayerId) == tx

\* step 5
MergeDeletePlayer(tx, duplicatePlayerId) ==
  IF tx.err # "" THEN tx
  ELSE TxWrite(tx, DeletePlayerCascade(tx.s, duplicatePlayerId), "")

\* The callback of the transaction
MergeTransaction(s, duplicatePlayerId, targetPlayerId, duplicateTeams, duplicateMatchPlayers, fault) ==
  With(TxBegin(s, fault), LAMBDA t0 :
    With(MergeTeamsLoop(t0, duplicateTeams, 1, targetPlayerId), LAMBDA t1 :
      With(MergeStats(t1, duplicatePlayerId, targetPlayerId), LAMBDA t2 :
        With(MergeRostersLoop(t2, duplicateMatchPlayers, 1, targetPlayerId), LAMBDA t3 :
          With(MergeDeleteTeams(t3, duplicatePlayerId), LAMBDA t4 :
            MergeDeletePlayer(t4, duplicatePlayerId))))))

\* the call without the check for a merge of a player with itself
mergePlayersNoSelfCheck(s, duplicatePlayerId, targetPlayerId, duplicateTeams, duplicateMatchPlayers, fault) ==
  IF FindPlayer(s, duplicatePlayerId) = NullRec \/ FindPlayer(s, targetPlayerId) = NullRec
  THEN [store |-> s, outcome |-> "NotFoundException", dirty |-> FALSE]
  ELSE With(MergeTransaction(s, duplicatePlayerId, targetPlayerId,
                             duplicateTeams, duplicateMatchPlayers, fault), LAMBDA tx :
         [store |-> TxCommit(s, tx), outcome |-> IF tx.err # "" THEN tx.err ELSE "ok",
          dirty |-> tx.s # s])

\* The whole call: [store |-> the store afterwards, outcome |-> "ok" or the
\* exception, dirty |-> the transaction had written when it ended].
\* duplicateTeams and duplicateMatchPlayers are the two findMany results in
\* the order the store returns them.
mergePlayers(s, duplicatePlayerId, targetPlayerId, duplicateTeams, duplicateMatchPlayers, fault) ==
  IF duplicatePlayerId = targetPlayerId
  THEN [store |-> s, outcome |-> "BadRequestException", dirty |-> FALSE]
  ELSE IF FindPlayer(s, duplicatePlayerId) = NullRec \/ FindPlayer(s, targetPlayerId) = NullRec
  THEN [store |-> s, outcome |-> "NotFoundException", dirty |-> FALSE]
  ELSE With(MergeTransaction(s, duplicatePlayerId, targetPlayerId,
                             duplicateTeams, duplicateMatchPlayers, fault), LAMBDA tx :
         [store |-> TxCommit(s, tx), outcome |-> IF tx.err # "" THEN tx.err ELSE "ok",
          dirty |-> tx.s # s])

\* ----------------------------------------------------------------------
\* PlayersService.assignToTeam, removeFromTeam, remove
\* ----------------------------------------------------------------------
\* the check finds nothing
JerseyTakenNever(s, teamId, jerseyNumber) == FALSE

\* playerTeam.findFirst({ where: { teamId, jerseyNumber, isActive: true } }) finds a row
JerseyTaken(s, teamId, jerseyNumber) ==
  \E pt \in s.playerTeams :
    pt.teamId = teamId /\ pt.jerseyNumber = jerseyNumber /\ pt.isActive

\* playerTeam.create({ data: { playerId, teamId, jerseyNumber, isActive: true } })
CreatePlayerTeam(s, playerId, teamId, jerseyNumber) ==
  [s EXCEPT !.playerTeams = @ \cup {[id |-> s.seq.playerTeam + 1, playerId |-> playerId,
                                     teamId |-> teamId, jerseyNumber |-> jerseyNumber,
                                     isActive |-> TRUE]},
            !.seq.playerTeam = @ + 1]

\* The rows findFirst({ where: { playerId, teamId, jerseyNumber } }) may return
ExistingAssociations(s, playerId, teamId, jerseyNumber) ==
  {pt \in s.playerTeams :
     pt.playerId = playerId /\ pt.teamId = teamId /\ pt.jerseyNumber = jerseyNumber}

\* existing: the row findFirst returned, or NullRec
assignToTeam(s, playerId, teamId, jerseyNumber, existing) ==
  IF FindPlayer(s, playerId) = NullRec \/ teamId \notin Teams
  THEN [store |-> s, outcome |-> "NotFoundException"]
  ELSE IF JerseyTaken(s, teamId, jerseyNumber)
  THEN [store |-> s, outcome |-> "ConflictException"]
  ELSE IF existing # NullRec
  THEN [store |-> [s EXCEPT !.playerTeams =
                     (@ \ {existing}) \cup {[existing EXCEPT !.isActive = TRUE]}],
        outcome |-> "ok"]
  ELSE [store |-> CreatePlayerTeam(s, playerId, teamId, jerseyNumber), outcome |-> "ok"]

\* playerTeam.updateMany({ where, data: { isActive: false, leftAt } })
Deactivate(s, rows) ==
  [s EXCEPT !.playerTeams = (@ \ rows) \cup {[pt EXCEPT !.isActive = FALSE] : pt \in rows}]

removeFromTeam(s, playerId, teamId) ==
  [store |-> Deactivate(s, {pt \in s.playerTeams :
                              pt.playerId = playerId /\ pt.teamId = teamId /\ pt.isActive}),
   outcome |-> "ok"]

remove(s, id) ==
  IF FindPlayer(s, id) = NullRec
  THEN [store |-> s, outcome |-> "NotFoundException"]
  ELSE [store |-> Deactivate(s, ActiveTeamsOf(s, id)), outcome |-> "ok"]

\* ----------------------------------------------------------------------
\* Rows of match_stat and match_player, written by the match workflows
\* ----------------------------------------------------------------------
\* insert into match_stat: foreign key to player, unique (match_id, player_id, team_id)
InsertMatchStat(s, matchId, playerId, teamId) ==
  IF \/ playerId \notin PlayerIds(s)
     \/ \E ms \in s.matchStats :
          ms.matchId = matchId /\ ms.playerId = playerId /\ ms.teamId = teamId
  THEN [store |-> s, outcome |-> "rejected"]
  ELSE [store |-> [s EXCEPT !.matchStats = @ \cup {[matchId |-> matchId,
                                                   playerId |-> playerId,
                                                   teamId |-> teamId]}],
        outcome |-> "ok"]

\* insert into match_player: foreign key to player, unique (match_id, player_id, team_id)
InsertMatchPlayer(s, matchId, playerId, teamId) ==
  IF \/ playerId \notin PlayerIds(s)
     \/ \E mp \in s.matchPlayers :
          mp.matchId = matchId /\ mp.playerId = playerId /\ mp.teamId = teamId
  THEN [store |-> s, outcome |-> "rejected"]
  ELSE [store |-> [s EXCEPT !.matchPlayers = @ \cup {[matchId |-> matchId,
                                                     playerId |-> playerId,
                                                     teamId |-> teamId]}],
        outcome |-> "ok"]

\* ----------------------------------------------------------------------
\* Actions: one per call, atomic (calls that do not overlap)
\* ----------------------------------------------------------------------
\* ids a caller may pass: the ids issued so far and one that is unknown
KnownIds == 1..MaxPlayers

AnyIds == 0..MaxPlayers

AssignToTeam(playerId, teamId, jerseyNumber) ==
  LET found == ExistingAssociations(Store, playerId, teamId, jerseyNumber)
  IN  \E existing \in (IF found = {} THEN {NullRec} ELSE found) :
        \E r \in {assignToTeam(Store, playerId, teamId, jerseyNumber, existing)} :
            /\ r.store.seq.playerTeam <= MaxPlayerTeams
            /\ SetStore(r.store)
            /\ last' = [op |-> "assignToTeam", outcome |-> r.outcome]
            /\ UNCHANGED calls

RemoveFromTeam(playerId, teamId) ==
  \E r \in {removeFromTeam(Store, playerId, teamId)} :
      /\ SetStore(r.store)
      /\ last' = [op |-> "removeFromTeam", outcome |-> r.outcome]
      /\ UNCHANGED calls

Remove(id) ==
  \E r \in {remove(Store, id)} :
      /\ SetStore(r.store)
      /\ last' = [op |-> "remove", outcome |-> r.outcome]
      /\ UNCHANGED calls

RecordMatchStat(matchId, playerId, teamId) ==
  \E r \in {InsertMatchStat(Store, matchId, playerId, teamId)} :
      /\ r.outcome = "ok"
      /\ Cardinality(r.store.matchStats) <= MaxMatchStats
      /\ SetStore(r.store)
      /\ last' = [op |-> "recordMatchStat", outcome |-> r.outcome]
      /\ UNCHANGED calls

AddMatchPlayer(matchId, playerId, teamId) ==
  \E r \in {InsertMatchPlayer(Store, matchId, playerId, teamId)} :
      /\ r.outcome = "ok"
      /\ Cardinality(r.store.matchPlayers) <= MaxMatchPlayers
      /\ SetStore(r.store)
      /\ last' = [op |-> "addMatchPlayer", outcome |-> r.outcome]
      /\ UNCHANGED calls

ActiveOn(s, playerId, teamId) ==
  {pt \in ActiveTeamsOf(s, playerId) : pt.teamId = teamId}

RostersIn(s, playerId, matchId) ==
  {mp \in RostersOf(s, playerId) : mp.matchId = matchId}

\* playerId has at most one active membership per team and one roster entry per match
OnePerTeamAndMatch(s, playerId) ==
  /\ \A t \in Teams : Cardinality(ActiveOn(s, playerId, t)) <= 1
  /\ \A m \in Matches : Cardinality(RostersIn(s, playerId, m)) <= 1

\* What the duplicate and the target own when a merge is called
MergeSummary(s, duplicatePlayerId, targetPlayerId) ==
  [dupActiveTeams |-> ActiveTeamsOf(s, duplicatePlayerId) # {},
   dupInactiveTeams |-> \E pt \in s.playerTeams :
                          pt.playerId = duplicatePlayerId /\ ~pt.isActive,
   dupStats |-> \E ms \in s.matchStats : ms.playerId = duplicatePlayerId,
   targetStats |-> \E ms \in s.matchStats : ms.playerId = targetPlayerId,
   dupRosters |-> RostersOf(s, duplicatePlayerId) # {},
   sharedTeam |-> \E t \in Teams : ActiveOn(s, duplicatePlayerId, t) # {}
                                      /\ ActiveOn(s, targetPlayerId, t) # {},
   ownTeam |-> \E t \in Teams : ActiveOn(s, duplicatePlayerId, t) # {}
                                   /\ ActiveOn(s, targetPlayerId, t) = {},
   sharedMatch |-> \E m \in Matches : RostersIn(s, duplicatePlayerId, m) # {}
                                        /\ RostersIn(s, targetPlayerId, m) # {},
   targetOne |-> OnePerTeamAndMatch(s, targetPlayerId),
   statClash |-> \E a \in s.matchStats : \E b \in s.matchStats :
                   /\ a.playerId = duplicatePlayerId
                   /\ b.playerId = targetPlayerId
                   /\ a.matchId = b.matchId
                   /\ a.teamId = b.teamId]

\* The write statements of a merge of duplicatePlayerId
MergeWrites(s, duplicatePlayerId) ==
  Cardinality(ActiveTeamsOf(s, duplicatePlayerId)) + Cardinality(RostersOf(s, duplicatePlayerId)) + 3

MergePlayers(duplicatePlayerId, targetPlayerId, fault) ==
  /\ fault <= MergeWrites(Store, duplicatePlayerId)
  /\ \E duplicateTeams \in Orders(ActiveTeamsOf(Store, duplicatePlayerId)) :
       \E duplicateMatchPlayers \in Orders(RostersOf(Store, duplicatePlayerId)) :
         \E r \in {mergePlayers(Store, duplicatePlayerId, targetPlayerId,
                               duplicateTeams, duplicateMatchPlayers, fault)} :
             /\ fault # 0 => r.outcome = "StoreUnavailable"
             /\ SetStore(r.store)
             /\ last' = [op |-> "mergePlayers", duplicatePlayerId |-> duplicatePlayerId,
                         targetPlayerId |-> targetPlayerId, outcome |-> r.outcome,
                         dirty |-> r.dirty,
                         had |-> MergeSummary(Store, duplicatePlayerId, targetPlayerId)]
             /\ UNCHANGED calls

\* ----------------------------------------------------------------------
\* SpecMerge: merges over rosters, stats and memberships
\* ----------------------------------------------------------------------
Text_al == <<"a", "l">>

Text_roe == <<"r", "o", "e">>

\* a player created with names only
PlainPlayer(id) ==
  [id |-> id, firstName |-> Text_al, lastName |-> Text_roe, email |-> Null,
   height |-> Null, phone |-> Null, dateOfBirth |-> Null, nationality |-> Null]

NoCall == [op |-> "none", outcome |-> "none"]

\* Request handlers that run at the same time
NumProcs == 2

Procs == 1..NumProcs

\* a handler with no call in flight
Idle == [op |-> "idle"]

NoCalls == [p \in Procs |-> Idle]

\* the store after MaxPlayers calls of create with names only
InitMerge ==
  /\ players = {PlainPlayer(id) : id \in 1..MaxPlayers}
  /\ playerTeams = {}
  /\ matchStats = {}
  /\ matchPlayers = {}
  /\ seq = [player |-> MaxPlayers, playerTeam |-> 0]
  /\ last = NoCall
  /\ calls = NoCalls

NextMerge ==
  \/ \E p \in KnownIds, t \in CalledTeams, j \in Jerseys : AssignToTeam(p, t, j)
  \/ \E p \in KnownIds, t \in CalledTeams : RemoveFromTeam(p, t)
  \/ \E m \in Matches, p \in KnownIds, t \in CalledTeams : RecordMatchStat(m, p, t)
  \/ \E m \in Matches, p \in KnownIds, t \in CalledTeams : AddMatchPlayer(m, p, t)
  \/ \E d \in AnyIds, t \in AnyIds, fault \in 0..MaxFaultAt : MergePlayers(d, t, fault)

SpecMerge == InitMerge /\ [][NextMerge]_vars

\* ---- claims about mergePlayers, checked under SpecMerge --------------------
MergeReturned == last.op = "mergePlayers"

MergeFailedInTransaction ==
  MergeReturned /\ last.outcome \in {"StoreUnavailable", "P2002"}

MergeSucceeded == MergeReturned /\ last.outcome = "ok"

MergeRejected ==
  MergeReturned /\ last.outcome \in {"BadRequestException", "NotFoundException"}

RefersTo(s, id) ==
  \/ \E pt \in s.playerTeams : pt.playerId = id
  \/ \E ms \in s.matchStats : ms.playerId = id
  \/ \E mp \in s.matchPlayers : mp.playerId = id

\* C1: a mergePlayers call that fails inside its transaction (an injected
\* store failure at any write, or the unique key of match_stat) leaves every
\* table as it was before the call.
C1_MergeFailureLeavesStore ==
  [][(last'.op = "mergePlayers" /\ last'.outcome \in {"StoreUnavailable", "P2002"})
       => Store' = Store]_vars

\* a merge failed after its transaction had already reassigned or removed rows
C1_Witness ==
  /\ MergeFailedInTransaction
  /\ last.outcome = "StoreUnavailable"
  /\ last.dirty
  /\ last.had.dupActiveTeams
  /\ last.had.dupStats

\* C2: after a successful mergePlayers(dupId, targetId) the player dupId is
\* gone and no membership, stat row or roster entry refers to dupId.
C2_DuplicateGone ==
  MergeSucceeded =>
    /\ FindPlayer(Store, last.duplicatePlayerId) = NullRec
    /\ ~RefersTo(Store, last.duplicatePlayerId)

\* a merge succeeded for a duplicate that had an inactive membership, a stat
\* row and a roster entry
C2_Witness ==
  /\ MergeSucceeded
  /\ last.had.dupInactiveTeams
  /\ last.had.dupStats
  /\ last.had.dupRosters

\* C3: a successful merge loses no statistics: every stat row of dupId is a
\* stat row of targetId afterwards, and the table has as many rows as before.
C3_StatsKept ==
  [][(last'.op = "mergePlayers" /\ last'.outcome = "ok") =>
       /\ \A ms \in matchStats :
            ms.playerId = last'.duplicatePlayerId =>
              [ms EXCEPT !.playerId = last'.targetPlayerId] \in matchStats'
       /\ Cardinality(matchStats') = Cardinality(matchStats)]_vars

\* a merge succeeded that moved a stat row to a target with a stat row of its own
C3_Witness ==
  /\ MergeSucceeded
  /\ last.had.dupStats
  /\ last.had.targetStats

\* C4: mergePlayers(x, x) is rejected as a self-merge, a duplicateId or
\* targetId that resolves to no player is rejected as not found, and a
\* rejected call changes no row.
C4_MergeRejections ==
  [][last'.op = "mergePlayers" =>
       /\ last'.duplicatePlayerId = last'.targetPlayerId =>
            last'.outcome = "BadRequestException"
       /\ (/\ last'.duplicatePlayerId # last'.targetPlayerId
           /\ \/ last'.duplicatePlayerId \notin PlayerIds(Store)
              \/ last'.targetPlayerId \notin PlayerIds(Store)) =>
            last'.outcome = "NotFoundException"
       /\ last'.outcome \in {"BadRequestException", "NotFoundException"} =>
            Store' = Store]_vars

\* a self-merge of an existing player with memberships and stats was rejected
C4_Witness ==
  /\ MergeReturned
  /\ last.outcome = "BadRequestException"
  /\ last.duplicatePlayerId \in PlayerIds(Store)
  /\ last.had.dupActiveTeams
  /\ last.had.dupStats

\* ----------------------------------------------------------------------
\* SpecDedup: findDuplicatePlayer applied to a candidate over a stored table
\* ----------------------------------------------------------------------
Text_jon == <<"j", "o", "n">>

Text_JON == <<"J", "O", "N">>

Text_john == <<"j", "o", "h", "n">>

Text_doe == <<"d", "o", "e">>

Text_don == <<"d", "o", "n">>

Email_a == <<"a", "@", "x">>

Email_b == <<"b", "@", "x">>

Text_ng == <<"n", "g">>

Height_77in == <<"7", "7", " ", "i", "n">>

Phone_555 == <<"5", "5", "5">>

\* two days of one year
Date_d1 == <<"1990", "0101">>

Date_d2 == <<"1990", "0202">>

\* nationality, height and phone of a profile: none of them, or all
NoExtras == [nationality |-> Null, height |-> Null, phone |-> Null]

AllExtras == [nationality |-> Text_ng, height |-> Height_77in, phone |-> Phone_555]

Profile(firstName, lastName, dateOfBirth, email, extras) ==
  [firstName |-> firstName, lastName |-> lastName, email |-> email,
   height |-> extras.height, phone |-> extras.phone, dateOfBirth |-> dateOfBirth,
   nationality |-> extras.nationality]

\* the row that player.create stores for a profile
PlayerRow(id, profile) ==
  [id |-> id, firstName |-> profile.firstName, lastName |-> profile.lastName,
   email |-> profile.email, height |-> profile.height, phone |-> profile.phone,
   dateOfBirth |-> profile.dateOfBirth, nationality |-> profile.nationality]

\* The profiles of the stored rows
StoredProfiles ==
  {Profile(Text_jon, Text_doe, d, e, x) :
     d \in {Null, Date_d1}, e \in {Null, Email_a}, x \in {NoExtras, AllExtras}}
  \cup {Profile(Text_john, Text_doe, Date_d1, Email_b, AllExtras),
        Profile(Text_al, Text_roe, Null, Null, NoExtras),
        Profile(Text_don, Text_roe, Date_d1, Null, AllExtras)}

\* The candidates of a call
DedupCandidates ==
  {[firstName |-> f, lastName |-> Text_doe, email |-> e, height |-> h, phone |-> ph,
    dateOfBirth |-> d, nationality |-> n] :
     f \in {Text_jon, Text_JON, Text_john}, e \in {Null, Email_a, Email_b},
     h \in {Null, Height_77in}, ph \in {Null, Phone_555},
     d \in {Null, Date_d1, Date_d2}, n \in {Null, Text_ng}}

\* player_email_key: no two rows with the same email that is not null
EmailsUnique(rows) ==
  \A p, q \in rows : (p.email # Null /\ p.email = q.email) => p = q

\* The player tables of up to MaxPlayers rows, ids in order of creation
DedupStores ==
  {rows \in UNION {{{PlayerRow(i, f[i]) : i \in 1..n} : f \in [1..n -> StoredProfiles]} :
                     n \in 0..MaxPlayers} : EmailsUnique(rows)}

InitDedup ==
  /\ players \in DedupStores
  /\ playerTeams = {}
  /\ matchStats = {}
  /\ matchPlayers = {}
  /\ seq = [player |-> Cardinality(players), playerTeam |-> 0]
  /\ last = NoCall
  /\ calls = NoCalls

\* One call of findDuplicatePlayer, or the same call once more; the store returns
\* the rows in any order
FindDuplicatePlayer(candidate) ==
  /\ last = NoCall \/ (last.op = "findDuplicatePlayer" /\ last.candidate = candidate)
  /\ \E rows \in Orders(players) :
       last' = [op |-> "findDuplicatePlayer", outcome |-> "ok", candidate |-> candidate,
                result |-> findDuplicatePlayer(candidate, rows)]
  /\ UNCHANGED <<players, playerTeams, matchStats, matchPlayers, seq, calls>>

NextDedup == \E candidate \in DedupCandidates : FindDuplicatePlayer(candidate)

SpecDedup == InitDedup /\ [][NextDedup]_vars

\* ---- claims about findDuplicatePlayer, checked under SpecDedup -------------
DedupReturned == last.op = "findDuplicatePlayer"

\* The stored rows with the candidate's names, whatever the case, and its date of birth
Twins(c) ==
  {p \in players : /\ ToLower(p.firstName) = ToLower(c.firstName)
                   /\ ToLower(p.lastName) = ToLower(c.lastName)
                   /\ p.dateOfBirth = c.dateOfBirth}

ExactPathFinds(c) == c.dateOfBirth # Null /\ Twins(c) # {}

SeqRange(q) == {q[i] : i \in 1..Len(q)}

\* C5: a candidate with a date of birth and a stored row with its names (in
\* any case) and that date of birth give EXACT_MATCH with score 100 and fields
\* {firstName, lastName, dateOfBirth}, whatever the other fields are; a
\* candidate without a date of birth never gives EXACT_MATCH.
C5_ExactMatchPath ==
  DedupReturned =>
    /\ ExactPathFinds(last.candidate) =>
         /\ last.result.matchType = "EXACT_MATCH"
         /\ last.result.isDuplicate
         /\ last.result.similarityScore = Pct(100)
         /\ SeqRange(last.result.matchedFields) = {"firstName", "lastName", "dateOfBirth"}
         /\ last.result.existingPlayer \in Twins(last.candidate)
    /\ last.candidate.dateOfBirth = Null => last.result.matchType # "EXACT_MATCH"

\* an exact match on a row whose first name differs in case and whose email
\* differs from the candidate's
C5_Witness ==
  /\ DedupReturned
  /\ ExactPathFinds(last.candidate)
  /\ last.result.matchType = "EXACT_MATCH"
  /\ last.candidate.email # Null
  /\ last.result.existingPlayer.email # Null
  /\ last.result.existingPlayer.email # last.candidate.email
  /\ last.result.existingPlayer.firstName # last.candidate.firstName

Prefiltered(c) == {p \in players : PrefilterWhere(c, p)}

ScoreOf(c, p) == calculatePlayerSimilarity(c, p).score

OverThreshold(c) == {p \in Prefiltered(c) : ScoreOf(c, p) >= Pct(FUZZY_THRESHOLD)}

OptionalAbsent(c, p) ==
  << c.dateOfBirth = Null /\ p.dateOfBirth = Null,
     ~Truthy(c.nationality) /\ ~Truthy(p.nationality),
     ~Truthy(c.email) /\ ~Truthy(p.email),
     ~Truthy(c.height) /\ ~Truthy(p.height),
     ~Truthy(c.phone) /\ ~Truthy(p.phone) >>

OptionalWeights == <<W_dob, W_nationality, W_email, W_height, W_phone>>

TotalWeight == W_firstName + W_lastName + W_dob + W_nationality + W_height + W_email + W_phone

NamesOnlyTwin(c, p) ==
  /\ p.firstName = c.firstName
  /\ p.lastName = c.lastName
  /\ \A k \in 1..5 : OptionalAbsent(c, p)[k]

FindPlayerByEmail(s, email) ==
  IF \E p \in s.players : p.email = email
  THEN CHOOSE p \in s.players : p.email = email
  ELSE NullRec

\* a table without the unique index
EmailTakenNever(s, email, exceptId) == FALSE

\* player_email_key: a row other than exceptId holds this email
EmailTaken(s, email, exceptId) ==
  email # Null /\ \E p \in s.players : p.email = email /\ p.id # exceptId

\* prisma.player.create: [store, err |-> "" or the error of the database, player]
InsertPlayer(s, data) ==
  IF EmailTaken(s, data.email, 0)
  THEN [store |-> s, err |-> "P2002", player |-> NullRec]
  ELSE [store |-> [s EXCEPT !.players = @ \cup {PlayerRow(s.seq.player + 1, data)},
                            !.seq.player = @ + 1],
        err |-> "", player |-> PlayerRow(s.seq.player + 1, data)]

\* prisma.player.update({ where: { id }, data: { email } })
UpdatePlayer(s, id, email) ==
  IF FindPlayer(s, id) = NullRec THEN [store |-> s, err |-> "P2025"]
  ELSE IF EmailTaken(s, email, id) THEN [store |-> s, err |-> "P2002"]
  ELSE [store |-> [s EXCEPT !.players =
                     {IF p.id = id THEN [p EXCEPT !.email = email] ELSE p : p \in @}],
        err |-> ""]

\* tx.player.create
TxInsertPlayer(tx, data) ==
  IF tx.err # "" THEN tx
  ELSE With(InsertPlayer(tx.s, data), LAMBDA r : TxWrite(tx, r.store, r.err))

\* tx.playerTeam.create; player_team_player_id_fkey
TxCreatePlayerTeam(tx, playerId, teamId, jerseyNumber) ==
  IF tx.err # "" THEN tx
  ELSE TxWrite(tx, CreatePlayerTeam(tx.s, playerId, teamId, jerseyNumber),
               IF playerId \in PlayerIds(tx.s) THEN "" ELSE "P2003")

\* The ids of set S in ascending order
RECURSIVE SortedIds(_)
SortedIds(S) == IF S = {} THEN <<>> ELSE <<SetMin(S)>> \o SortedIds(S \ {SetMin(S)})

\* The player table as a query returns it: the rows that stood when the call
\* began in the order the store chose for them, newer rows after them
RowsIn(s, order) ==
  LET old == SelectSeq(order, LAMBDA id : id \in PlayerIds(s))
      new == SortedIds(PlayerIds(s) \ {order[i] : i \in 1..Len(order)})
  IN  [i \in 1..(Len(old) + Len(new)) |->
         FindPlayer(s, IF i <= Len(old) THEN old[i] ELSE new[i - Len(old)])]

\* ----------------------------------------------------------------------
\* PlayersService.create
\* ----------------------------------------------------------------------
\* the checks without the duplicate check
createChecksNoDuplicateCheck(s, createPlayerDto, confirmDuplicate, rows) ==
  IF /\ Truthy(createPlayerDto.email)
     /\ FindPlayerByEmail(s, createPlayerDto.email) # NullRec
  THEN "ConflictException"
  ELSE "proceed"

\* Up to the insert: "proceed", or the exception thrown
createChecks(s, createPlayerDto, confirmDuplicate, rows) ==
  With(findDuplicatePlayer(createPlayerDto, rows), LAMBDA duplicateCheck :
    IF duplicateCheck.matchType = "EXACT_MATCH" THEN "ConflictException"
    ELSE IF duplicateCheck.matchType = "POTENTIAL_DUPLICATE" /\ ~confirmDuplicate
    THEN "ConflictException"
    ELSE IF /\ Truthy(createPlayerDto.email)
            /\ FindPlayerByEmail(s, createPlayerDto.email) # NullRec
    THEN "ConflictException"
    ELSE "proceed")

\* prisma.player.create of the call
createInsert(s, createPlayerDto) ==
  With(InsertPlayer(s, createPlayerDto), LAMBDA r :
    [store |-> r.store, outcome |-> IF r.err # "" THEN r.err ELSE "ok"])

create(s, createPlayerDto, confirmDuplicate, rows) ==
  With(createChecks(s, createPlayerDto, confirmDuplicate, rows), LAMBDA c :
    IF c # "proceed" THEN [store |-> s, outcome |-> c]
    ELSE createInsert(s, createPlayerDto))

\* ----------------------------------------------------------------------
\* PlayersService.createForTeam
\* ----------------------------------------------------------------------
\* the checks that link a potential duplicate as they link an exact match
createForTeamChecksLinkPotential(s, createPlayerDto, teamId, jerseyNumber, confirmDuplicate, rows) ==
  IF teamId \notin Teams THEN [outcome |-> "NotFoundException", player |-> NullRec]
  ELSE IF JerseyTaken(s, teamId, jerseyNumber)
  THEN [outcome |-> "ConflictException", player |-> NullRec]
  ELSE With(findDuplicatePlayer(createPlayerDto, rows), LAMBDA duplicateCheck :
         IF duplicateCheck.matchType # "NO_MATCH"
         THEN [outcome |-> "proceed", player |-> duplicateCheck.existingPlayer]
         ELSE IF /\ Truthy(createPlayerDto.email)
                 /\ FindPlayerByEmail(s, createPlayerDto.email) # NullRec
         THEN [outcome |-> "ConflictException", player |-> NullRec]
         ELSE [outcome |-> "proceed", player |-> NullRec])

\* Up to the first write: [outcome |-> "proceed" or the exception thrown,
\* player |-> the existing row to link, or NullRec to insert one]
createForTeamChecks(s, createPlayerDto, teamId, jerseyNumber, confirmDuplicate, rows) ==
  IF teamId \notin Teams THEN [outcome |-> "NotFoundException", player |-> NullRec]
  ELSE IF JerseyTaken(s, teamId, jerseyNumber)
  THEN [outcome |-> "ConflictException", player |-> NullRec]
  ELSE With(findDuplicatePlayer(createPlayerDto, rows), LAMBDA duplicateCheck :
         IF duplicateCheck.matchType = "EXACT_MATCH"
         THEN [outcome |-> "proceed", player |-> duplicateCheck.existingPlayer]
         ELSE IF duplicateCheck.matchType = "POTENTIAL_DUPLICATE" /\ ~confirmDuplicate
         THEN [outcome |-> "ConflictException", player |-> NullRec]
         ELSE IF /\ Truthy(createPlayerDto.email)
                 /\ FindPlayerByEmail(s, createPlayerDto.email) # NullRec
         THEN [outcome |-> "ConflictException", player |-> NullRec]
         ELSE [outcome |-> "proceed", player |-> NullRec])

\* The writes of the transaction: tx.player.create unless a row is linked,
\* then tx.playerTeam.create
createForTeamWrites(s, createPlayerDto, teamId, jerseyNumber, player) ==
  With(IF player = NullRec THEN TxInsertPlayer(TxBegin(s, 0), createPlayerDto)
       ELSE TxBegin(s, 0), LAMBDA t1 :
    With(TxCreatePlayerTeam(t1, IF player = NullRec THEN t1.s.seq.player ELSE player.id,
                            teamId, jerseyNumber), LAMBDA t2 :
      [store |-> TxCommit(s, t2), outcome |-> IF t2.err # "" THEN t2.err ELSE "ok"]))

createForTeam(s, createPlayerDto, teamId, jerseyNumber, confirmDuplicate, rows) ==
  With(createForTeamChecks(s, createPlayerDto, teamId, jerseyNumber, confirmDuplicate, rows),
       LAMBDA c :
    IF c.outcome # "proceed" THEN [store |-> s, outcome |-> c.outcome]
    ELSE createForTeamWrites(s, createPlayerDto, teamId, jerseyNumber, c.player))

\* ----------------------------------------------------------------------
\* PlayersService.update (the email of the dto; Null: the dto has none)
\* ----------------------------------------------------------------------
updateChecks(s, id, email) ==
  IF FindPlayer(s, id) = NullRec THEN "NotFoundException"
  ELSE IF /\ Truthy(email)
          /\ email # FindPlayer(s, id).email
          /\ FindPlayerByEmail(s, email) # NullRec
  THEN "ConflictException"
  ELSE "proceed"

\* prisma.player.update of the call; a dto without email leaves the column
updateWrite(s, id, email) ==
  IF email = Null
  THEN [store |-> s, outcome |-> IF FindPlayer(s, id) = NullRec THEN "P2025" ELSE "ok"]
  ELSE With(UpdatePlayer(s, id, email), LAMBDA r :
         [store |-> r.store, outcome |-> IF r.err # "" THEN r.err ELSE "ok"])

update(s, id, email) ==
  With(updateChecks(s, id, email), LAMBDA c :
    IF c # "proceed" THEN [store |-> s, outcome |-> c] ELSE updateWrite(s, id, email))

\* ----------------------------------------------------------------------
\* PlayersService.bulkCreateForTeam
\* ----------------------------------------------------------------------
\* jerseyNumbers.filter((num, index) => jerseyNumbers.indexOf(num) !== index) is not empty
DuplicateJerseys(playersData) ==
  \E i, j \in 1..Len(playersData) :
    i < j /\ playersData[i].jerseyNumber = playersData[j].jerseyNumber

\* Up to the transaction: "proceed", or the exception thrown
bulkCreateForTeamChecks(s, teamId, playersData) ==
  IF teamId \notin Teams THEN "NotFoundException"
  ELSE IF DuplicateJerseys(playersData) THEN "BadRequestException"
  ELSE IF \E i \in 1..Len(playersData) : JerseyTaken(s, teamId, playersData[i].jerseyNumber)
  THEN "ConflictException"
  ELSE "proceed"

\* the entry result.duplicateMatches.push adds for a row found to be a duplicate
DuplicateMatch(playerData, duplicateCheck) ==
  [candidate |-> [firstName |-> playerData.firstName, lastName |-> playerData.lastName],
   existingPlayer |-> [id |-> duplicateCheck.existingPlayer.id,
                       firstName |-> duplicateCheck.existingPlayer.firstName,
                       lastName |-> duplicateCheck.existingPlayer.lastName],
   similarityScore |-> IF duplicateCheck.matchType = "EXACT_MATCH" THEN Pct(100)
                       ELSE duplicateCheck.similarityScore]

\* One iteration up to its writes: [player |-> the row to link, or NullRec to insert
\* one, duplicateCheck, duplicateMatches |-> what the row adds to the result].
\* The duplicate check reads through this.prisma (rows: what is committed),
\* the email lookup through tx (txs: what the transaction sees).
bulkRowChecks(txs, playerData, rows) ==
  With(findDuplicatePlayer(playerData, rows), LAMBDA duplicateCheck :
    IF /\ duplicateCheck.matchType \in {"EXACT_MATCH", "POTENTIAL_DUPLICATE"}
       /\ duplicateCheck.existingPlayer # NullRec
    THEN [player |-> duplicateCheck.existingPlayer, duplicateCheck |-> duplicateCheck,
          duplicateMatches |-> <<DuplicateMatch(playerData, duplicateCheck)>>]
    ELSE [player |-> IF Truthy(playerData.email)
                     THEN FindPlayerByEmail(txs, playerData.email)
                     ELSE NullRec,
          duplicateCheck |-> duplicateCheck, duplicateMatches |-> <<>>])

\* What one iteration did: how the matcher classified the row, and whether the
\* iteration inserted a player
BulkLogEntry(playerData, c, before, after) ==
  [firstName |-> playerData.firstName, lastName |-> playerData.lastName,
   matchType |-> c.duplicateCheck.matchType,
   existingPlayer |-> c.duplicateCheck.existingPlayer,
   similarityScore |-> c.duplicateCheck.similarityScore,
   player |-> after.s.seq.player > before.s.seq.player]

\* The writes of one iteration
bulkRowWrites(tx, playerData, teamId, player) ==
  With(IF player = NullRec THEN TxInsertPlayer(tx, playerData) ELSE tx, LAMBDA t1 :
    TxCreatePlayerTeam(t1, IF player = NullRec THEN t1.s.seq.player ELSE player.id,
                       teamId, playerData.jerseyNumber))

\* The loop of the transaction: [tx, created, duplicates, duplicateMatches, log]
RECURSIVE bulkLoop(_, _, _, _, _)
bulkLoop(acc, playersData, i, teamId, rows) ==
  IF i > Len(playersData) \/ acc.tx.err # "" THEN acc
  ELSE With(bulkRowChecks(acc.tx.s, playersData[i], rows), LAMBDA c :
         With(bulkRowWrites(acc.tx, playersData[i], teamId, c.player), LAMBDA tx :
           With([tx |-> tx,
                 created |-> acc.created + (IF c.player = NullRec THEN 1 ELSE 0),
                 duplicates |-> acc.duplicates + (IF c.player = NullRec THEN 0 ELSE 1),
                 duplicateMatches |-> acc.duplicateMatches \o c.duplicateMatches,
                 log |-> Append(acc.log, BulkLogEntry(playersData[i], c, acc.tx, tx))],
                LAMBDA next : bulkLoop(next, playersData, i + 1, teamId, rows))))

\* fault: the write statement of the transaction at which the store fails (0: none)
bulkCreateForTeam(s, teamId, playersData, rows, fault) ==
  With(bulkCreateForTeamChecks(s, teamId, playersData), LAMBDA c :
    IF c # "proceed"
    THEN [store |-> s, outcome |-> c, created |-> 0, duplicates |-> 0,
          duplicateMatches |-> <<>>, log |-> <<>>]
    ELSE With(bulkLoop([tx |-> TxBegin(s, fault), created |-> 0, duplicates |-> 0,
                        duplicateMatches |-> <<>>, log |-> <<>>],
                       playersData, 1, teamId, rows), LAMBDA r :
           [store |-> TxCommit(s, r.tx),
            outcome |-> IF r.tx.err # "" THEN r.tx.err ELSE "ok",
            created |-> r.created, duplicates |-> r.duplicates,
            duplicateMatches |-> r.duplicateMatches, log |-> r.log]))

\* ----------------------------------------------------------------------
\* PlayersService.processBulkUpload
\* ----------------------------------------------------------------------
\* a sheet cell that is empty
NoCell == 0 - 1

\* The candidate of a sheet row.  The row's jersey is a number cell or NoCell;
\* row["Jersey Number"] || row["Jersey"] ? parseInt(...) : undefined leaves
\* undefined (NoCell) for an empty cell and for the number 0.
UploadCandidate(row) ==
  [firstName |-> Trim(row.firstName), lastName |-> Trim(row.lastName),
   email |-> IF Truthy(row.email) THEN Trim(row.email) ELSE Null,
   height |-> IF Truthy(row.height) THEN row.height ELSE Null,
   phone |-> IF Truthy(row.phone) THEN row.phone ELSE Null,
   dateOfBirth |-> row.dateOfBirth,
   nationality |-> IF Truthy(row.nationality) THEN Trim(row.nationality) ELSE Null,
   jerseyNumber |-> IF row.jersey # NoCell /\ row.jersey # 0 THEN row.jersey ELSE NoCell]

\* JavaScript truthiness of candidate.jerseyNumber
TruthyNumber(n) == n # NoCell /\ n # 0

\* the row counts as an exact match only
UploadIsDuplicateExactOnly(duplicateCheck) == duplicateCheck.matchType = "EXACT_MATCH"

\* duplicateCheck.matchType !== "NO_MATCH" && duplicateCheck.existingPlayer
UploadIsDuplicate(duplicateCheck) ==
  duplicateCheck.matchType # "NO_MATCH" /\ duplicateCheck.existingPlayer # NullRec

\* similarityScore.toFixed(2), in hundredths
ToFixed2(score) == (score * 100 + ScoreScale \div 2) \div ScoreScale

\* One row up to its writes: [branch |-> what the row will do, candidate,
\* player |-> the duplicate found, or NullRec, duplicateCheck]
uploadRowChecks(s, teamId, row, rows) ==
  IF ~Truthy(row.firstName) \/ ~Truthy(row.lastName)
  THEN [branch |-> "missingName", candidate |-> NullRec, player |-> NullRec,
        duplicateCheck |-> NoMatchResult]
  ELSE With(UploadCandidate(row), LAMBDA candidate :
    With(findDuplicatePlayer(candidate, rows), LAMBDA duplicateCheck :
      IF UploadIsDuplicate(duplicateCheck)
      THEN [branch |->
              IF ~TruthyNumber(candidate.jerseyNumber) THEN "skipped"
              ELSE IF JerseyTaken(s, teamId, candidate.jerseyNumber) THEN "jerseyTaken"
              ELSE IF \E pt \in s.playerTeams :
                        /\ pt.teamId = teamId
                        /\ pt.playerId = duplicateCheck.existingPlayer.id
                        /\ pt.isActive
              THEN "alreadyInTeam"
              ELSE "link",
            candidate |-> candidate, player |-> duplicateCheck.existingPlayer,
            duplicateCheck |-> duplicateCheck]
      ELSE [branch |->
              IF /\ TruthyNumber(candidate.jerseyNumber)
                 /\ JerseyTaken(s, teamId, candidate.jerseyNumber)
              THEN "newJerseyTaken" ELSE "create",
            candidate |-> candidate, player |-> NullRec,
            duplicateCheck |-> duplicateCheck]))

UploadError(rowNumber, error) == <<[row |-> rowNumber, error |-> error]>>

\* The writes of one row, and what the row adds to the counts and to errors; an
\* error of the database is caught and reported with the row.  failRow is the row
\* at whose playerTeam.create the store fails (0: at none).
uploadRowEffects(s, teamId, rowNumber, d, failRow) ==
  CASE d.branch = "missingName" ->
         [store |-> s, errors |-> UploadError(rowNumber, "Missing First or Last Name"),
          created |-> 0, duplicatesFound |-> 0]
    [] d.branch \in {"skipped", "alreadyInTeam"} ->
         [store |-> s, errors |-> <<>>, created |-> 0, duplicatesFound |-> 1]
    [] d.branch = "jerseyTaken" ->
         [store |-> s, errors |-> UploadError(rowNumber, "Jersey taken"),
          created |-> 0, duplicatesFound |-> 1]
    [] d.branch = "link" ->
         IF failRow = rowNumber
         THEN [store |-> s, errors |-> UploadError(rowNumber, "StoreUnavailable"),
               created |-> 0, duplicatesFound |-> 1]
         ELSE IF d.player.id \in PlayerIds(s)
         THEN [store |-> CreatePlayerTeam(s, d.player.id, teamId, d.candidate.jerseyNumber),
               errors |-> <<>>, created |-> 0, duplicatesFound |-> 1]
         ELSE [store |-> s, errors |-> UploadError(rowNumber, "P2003"),
               created |-> 0, duplicatesFound |-> 1]
    [] d.branch = "newJerseyTaken" ->
         [store |-> s, errors |-> UploadError(rowNumber, "Jersey taken"),
          created |-> 0, duplicatesFound |-> 0]
    [] d.branch = "create" ->
         With(InsertPlayer(s, d.candidate), LAMBDA r :
           IF r.err # ""
           THEN [store |-> s, errors |-> UploadError(rowNumber, r.err),
                 created |-> 0, duplicatesFound |-> 0]
           ELSE IF TruthyNumber(d.candidate.jerseyNumber) /\ failRow = rowNumber
           THEN [store |-> r.store, errors |-> UploadError(rowNumber, "StoreUnavailable"),
                 created |-> 0, duplicatesFound |-> 0]
           ELSE [store |-> IF TruthyNumber(d.candidate.jerseyNumber)
                           THEN CreatePlayerTeam(r.store, r.player.id, teamId,
                                                 d.candidate.jerseyNumber)
                           ELSE r.store,
                 errors |-> <<>>, created |-> 1, duplicatesFound |-> 0])

\* result.details.push of a duplicate row, with the action the row ended with
UploadDetails(s, rowNumber, d, w) ==
  IF d.branch \in {"skipped", "jerseyTaken", "alreadyInTeam", "link"}
  THEN <<[row |-> rowNumber,
          status |-> d.duplicateCheck.matchType,
          matchScore |-> ToFixed2(d.duplicateCheck.similarityScore),
          existingPlayerId |-> d.duplicateCheck.existingPlayer.id,
          action |-> IF d.branch = "link" /\ w.store.seq.playerTeam > s.seq.playerTeam
                     THEN "LINKED"
                     ELSE IF d.branch = "alreadyInTeam" THEN "ALREADY_IN_TEAM"
                     ELSE "SKIPPED"]>>
  ELSE <<>>

\* One row: [store, errors, created, duplicatesFound, details]
uploadRowWrites(s, teamId, rowNumber, d, failRow) ==
  With(uploadRowEffects(s, teamId, rowNumber, d, failRow), LAMBDA w :
    [store |-> w.store, errors |-> w.errors, created |-> w.created,
     duplicatesFound |-> w.duplicatesFound, details |-> UploadDetails(s, rowNumber, d, w)])

\* the team holds an active membership with this number
ActiveOnTeam(s, teamId, jersey) ==
  \E pt \in s.playerTeams : pt.teamId = teamId /\ pt.jerseyNumber = jersey /\ pt.isActive

\* What one row did: its row number, whether its jersey number was active on
\* the team when its turn came, whether errors holds it, what it inserted
UploadLogEntry(s, teamId, row, rowNumber, d, w) ==
  [row |-> rowNumber,
   matchType |-> d.duplicateCheck.matchType,
   existingPlayer |-> d.duplicateCheck.existingPlayer,
   similarityScore |-> d.duplicateCheck.similarityScore,
   taken |-> row.jersey # NoCell /\ ActiveOnTeam(s, teamId, row.jersey),
   inErrors |-> \E k \in 1..Len(w.errors) : w.errors[k].row = rowNumber,
   player |-> w.store.seq.player > s.seq.player,
   membership |-> w.store.seq.playerTeam > s.seq.playerTeam]

\* The loop over the rows: [store, created, duplicatesFound, errors, details, log]
RECURSIVE uploadLoop(_, _, _, _, _, _)
uploadLoop(acc, teamId, rawData, i, order, failRow) ==
  IF i > Len(rawData) THEN acc
  ELSE With(uploadRowChecks(acc.store, teamId, rawData[i], RowsIn(acc.store, order)),
            LAMBDA d :
         With(uploadRowWrites(acc.store, teamId, i + 1, d, failRow), LAMBDA w :
           With([store |-> w.store,
                 created |-> acc.created + w.created,
                 duplicatesFound |-> acc.duplicatesFound + w.duplicatesFound,
                 errors |-> acc.errors \o w.errors,
                 details |-> acc.details \o w.details,
                 log |-> Append(acc.log,
                                UploadLogEntry(acc.store, teamId, rawData[i], i + 1, d, w))],
                LAMBDA next : uploadLoop(next, teamId, rawData, i + 1, order, failRow))))

\* The call: [outcome, store, created, duplicatesFound, errors, details, log]
processBulkUpload(s, teamId, rawData, order, failRow) ==
  IF teamId \notin Teams
  THEN [outcome |-> "NotFoundException", store |-> s, created |-> 0, duplicatesFound |-> 0,
        errors |-> <<>>, details |-> <<>>, log |-> <<>>]
  ELSE With(uploadLoop([store |-> s, created |-> 0, duplicatesFound |-> 0,
                        errors |-> <<>>, details |-> <<>>, log |-> <<>>],
                       teamId, rawData, 1, order, failRow),
            LAMBDA r :
         [outcome |-> "ok", store |-> r.store, created |-> r.created,
          duplicatesFound |-> r.duplicatesFound, errors |-> r.errors,
          details |-> r.details, log |-> r.log])

\* ----------------------------------------------------------------------
\* Spec: the roster workflows, one call at a time, from the empty store
\* ----------------------------------------------------------------------
\* Rows of one bulk request or sheet
MaxRows == 2

P_jon == Profile(Text_jon, Text_doe, Date_d1, Email_a, AllExtras)

\* a potential duplicate of P_jon: a longer first name and another day of the same year
P_john == Profile(Text_john, Text_doe, Date_d2, Null, AllExtras)

P_al == Profile(Text_al, Text_roe, Null, Null, NoExtras)

\* no duplicate of P_jon for the matcher, but with its email
P_al_a == Profile(Text_al, Text_roe, Null, Email_a, NoExtras)

\* a player of a bulk request: the dto fields and jerseyNumber
PlayerData(profile, jerseyNumber) ==
  [firstName |-> profile.firstName, lastName |-> profile.lastName,
   email |-> profile.email, height |-> profile.height, phone |-> profile.phone,
   dateOfBirth |-> profile.dateOfBirth, nationality |-> profile.nationality,
   jerseyNumber |-> jerseyNumber]

\* a row of a sheet: the cells of a profile and the jersey cell
SheetRow(profile, jersey) ==
  [firstName |-> profile.firstName, lastName |-> profile.lastName,
   email |-> profile.email, height |-> profile.height, phone |-> profile.phone,
   dateOfBirth |-> profile.dateOfBirth, nationality |-> profile.nationality,
   jersey |-> jersey]

\* The sequences of 1..MaxRows elements of set S
Payloads(S) == UNION {[1..n -> S] : n \in 1..MaxRows}

TeamDtos == {P_jon}

BulkPayloads ==
  Payloads({PlayerData(P_john, 0), PlayerData(P_al, MaxJersey)})

UploadPayloads ==
  Payloads({SheetRow(P_john, 0), SheetRow(P_al_a, MaxJersey)})

\* the store stays within the bounds of the model
WithinBounds(s) == s.seq.player <= MaxPlayers /\ s.seq.playerTeam <= MaxPlayerTeams

\* What a call for one player met and did: how the matcher classifies the candidate
\* against the store the call began with, whether its email and its jersey number were
\* held, and what the call inserted
SingleSummary(s, createPlayerDto, confirmDuplicate, jerseyTaken, duplicateCheck, after) ==
  [matchType |-> duplicateCheck.matchType,
   isDuplicate |-> duplicateCheck.isDuplicate,
   confirmDuplicate |-> confirmDuplicate,
   emailHeld |-> /\ Truthy(createPlayerDto.email)
                 /\ FindPlayerByEmail(s, createPlayerDto.email) # NullRec,
   jerseyTaken |-> jerseyTaken,
   inserted |-> after.seq.player - s.seq.player,
   memberships |-> after.seq.playerTeam - s.seq.playerTeam,
   linkedNew |-> \E pt \in after.playerTeams \ s.playerTeams :
                   pt.playerId \notin PlayerIds(s)]

Create(createPlayerDto, confirmDuplicate) ==
  \E order \in Orders(PlayerIds(Store)) :
    \E r \in {create(Store, createPlayerDto, confirmDuplicate, RowsIn(Store, order))} :
      /\ WithinBounds(r.store)
      /\ SetStore(r.store)
      /\ last' = [op |-> "create", outcome |-> r.outcome,
                  call |-> SingleSummary(Store, createPlayerDto, confirmDuplicate, FALSE,
                             findDuplicatePlayer(createPlayerDto, RowsIn(Store, order)),
                             r.store)]
      /\ UNCHANGED calls

CreateForTeam(createPlayerDto, teamId, jerseyNumber, confirmDuplicate) ==
  \E order \in Orders(PlayerIds(Store)) :
    \E r \in {createForTeam(Store, createPlayerDto, teamId, jerseyNumber, confirmDuplicate,
                            RowsIn(Store, order))} :
      /\ WithinBounds(r.store)
      /\ SetStore(r.store)
      /\ last' = [op |-> "createForTeam", outcome |-> r.outcome,
                  call |-> SingleSummary(Store, createPlayerDto, confirmDuplicate,
                             JerseyTaken(Store, teamId, jerseyNumber),
                             findDuplicatePlayer(createPlayerDto, RowsIn(Store, order)),
                             r.store)]
      /\ UNCHANGED calls

\* rows i < j of a bulk request that describe one person (same first name, last name
\* and date of birth) whom the store s does not hold
TwinRows(s, playersData) ==
  {pair \in (1..Len(playersData)) \X (1..Len(playersData)) :
     /\ pair[1] < pair[2]
     /\ playersData[pair[1]].firstName = playersData[pair[2]].firstName
     /\ playersData[pair[1]].lastName = playersData[pair[2]].lastName
     /\ playersData[pair[1]].dateOfBirth = playersData[pair[2]].dateOfBirth
     /\ ~\E p \in s.players : ExactWhere(playersData[pair[1]], p)}

\* What a bulk request did: whether its jersey numbers are pairwise distinct, how many
\* of its rows carried a number that was free on the team when the call began, and how
\* many memberships and players the call committed
BulkSummary(s, teamId, playersData, r) ==
  [rows |-> Len(playersData),
   distinctJerseys |-> ~DuplicateJerseys(playersData),
   freeRows |-> Cardinality({i \in 1..Len(playersData) :
                               ~ActiveOnTeam(s, teamId, playersData[i].jerseyNumber)}),
   memberships |-> r.store.seq.playerTeam - s.seq.playerTeam,
   inserted |-> r.store.seq.player - s.seq.player,
   twinRows |-> TwinRows(s, playersData) # {},
   twinsWithoutEmail |-> \E pair \in TwinRows(s, playersData) :
                           ~Truthy(playersData[pair[2]].email),
   twinsInserted |-> \E pair \in TwinRows(s, playersData) :
                       /\ pair[2] <= Len(r.log)
                       /\ r.log[pair[1]].player
                       /\ r.log[pair[2]].player,
   potentialRows |-> Cardinality({i \in 1..Len(r.log) :
                                    r.log[i].matchType = "POTENTIAL_DUPLICATE"}),
   potentialInserted |-> \E i \in 1..Len(r.log) :
                            r.log[i].matchType = "POTENTIAL_DUPLICATE" /\ r.log[i].player,
   potentialReported |-> \A i \in 1..Len(r.log) :
                            r.log[i].matchType = "POTENTIAL_DUPLICATE" =>
                              \E k \in 1..Len(r.duplicateMatches) :
                                LET e == r.duplicateMatches[k]
                                IN  /\ e.candidate.firstName = r.log[i].firstName
                                    /\ e.candidate.lastName = r.log[i].lastName
                                    /\ e.existingPlayer.id = r.log[i].existingPlayer.id
                                    /\ e.similarityScore = r.log[i].similarityScore]

BulkCreateForTeam(teamId, playersData, fault) ==
  \E order \in Orders(PlayerIds(Store)) :
    \E r \in {bulkCreateForTeam(Store, teamId, playersData, RowsIn(Store, order), fault)} :
      /\ fault # 0 => r.outcome = "StoreUnavailable"
      /\ WithinBounds(r.store)
      /\ SetStore(r.store)
      /\ last' = [op |-> "bulkCreateForTeam", outcome |-> r.outcome,
                  bulk |-> BulkSummary(Store, teamId, playersData, r)]
      /\ UNCHANGED calls

\* What the log of an upload says about the rows whose jersey number was active
UploadSummary(rawData, log, details) ==
  [rows |-> Len(rawData),
   potentialRows |-> Cardinality({i \in 1..Len(log) :
                                    log[i].matchType = "POTENTIAL_DUPLICATE"}),
   potentialInserted |-> \E i \in 1..Len(log) :
                            log[i].matchType = "POTENTIAL_DUPLICATE" /\ log[i].player,
   potentialReported |-> \A i \in 1..Len(log) :
                            log[i].matchType = "POTENTIAL_DUPLICATE" =>
                              \E k \in 1..Len(details) :
                                /\ details[k].row = log[i].row
                                /\ details[k].status = "POTENTIAL_DUPLICATE"
                                /\ details[k].existingPlayerId = log[i].existingPlayer.id
                                /\ details[k].matchScore = ToFixed2(log[i].similarityScore),
   inOrder |-> Len(log) = Len(rawData) /\ \A i \in 1..Len(log) : log[i].row = i + 1,
   takenRows |-> Cardinality({i \in 1..Len(log) : log[i].taken}),
   unreportedJerseys |-> {rawData[i].jersey : i \in
                            {k \in 1..Len(log) :
                               /\ log[k].taken
                               /\ ~(log[k].inErrors /\ ~log[k].player /\ ~log[k].membership)}},
   otherRowsInserted |-> \E i \in 1..Len(log) :
                            ~log[i].taken /\ (log[i].player \/ log[i].membership),
   halfApplied |-> \E i \in 1..Len(log) :
                      log[i].inErrors /\ log[i].player /\ ~log[i].membership]

ProcessBulkUpload(teamId, rawData, failRow) ==
  \E order \in Orders(PlayerIds(Store)) :
    \E r \in {processBulkUpload(Store, teamId, rawData, order, failRow)} :
      /\ failRow # 0 => \E k \in 1..Len(r.errors) :
                          r.errors[k] = [row |-> failRow, error |-> "StoreUnavailable"]
      /\ WithinBounds(r.store)
      /\ SetStore(r.store)
      /\ last' = [op |-> "processBulkUpload", outcome |-> r.outcome,
                  upload |-> UploadSummary(rawData, r.log, r.details)]
      /\ UNCHANGED calls

Init ==
  /\ players = {}
  /\ playerTeams = {}
  /\ matchStats = {}
  /\ matchPlayers = {}
  /\ seq = [player |-> 0, playerTeam |-> 0]
  /\ last = NoCall
  /\ calls = NoCalls

Next ==
  \/ \E dto \in TeamDtos, c \in BOOLEAN : Create(dto, c)
  \/ \E dto \in TeamDtos, t \in CalledTeams, j \in Jerseys, c \in BOOLEAN : CreateForTeam(dto, t, j, c)
  \/ \E t \in CalledTeams, playersData \in BulkPayloads : BulkCreateForTeam(t, playersData, 0)
  \/ \E t \in CalledTeams, rawData \in UploadPayloads : ProcessBulkUpload(t, rawData, 0)
  \/ \E p \in KnownIds, t \in CalledTeams, j \in Jerseys : AssignToTeam(p, t, j)
  \/ \E p \in KnownIds, t \in CalledTeams : RemoveFromTeam(p, t)
  \/ \E p \in KnownIds : Remove(p)
  \/ \E d \in KnownIds, t \in KnownIds : MergePlayers(d, t, 0)

Spec == Init /\ [][Next]_vars

\* ----------------------------------------------------------------------
\* Claims about the roster workflows (Spec)
\* ----------------------------------------------------------------------
ActiveMemberships(teamId) == {pt \in playerTeams : pt.teamId = teamId /\ pt.isActive}

\* C8: after any sequence of createForTeam, bulkCreateForTeam, processBulkUpload,
\* assignToTeam, removeFromTeam, remove and mergePlayers calls, one at a time, no team has
\* two active memberships with the same jersey number.
C8_ActiveJerseysDistinct ==
  \A t \in Teams : \A a, b \in ActiveMemberships(t) :
    a.jerseyNumber = b.jerseyNumber => a = b

\* A bulk request has filled a team with two active memberships.
C8_Witness ==
  /\ last.op = "bulkCreateForTeam"
  /\ last.outcome = "ok"
  /\ \E t \in Teams : Cardinality(ActiveMemberships(t)) = 2

\* C10: in processBulkUpload a row whose jersey number is already active on the team is
\* appended to errors with its row number and creates neither a player nor a membership,
\* the other rows are processed in input order, and the call returns normally.
C10_TakenJerseyRowReported ==
  last.op = "processBulkUpload" =>
    /\ last.outcome = "ok"
    /\ last.upload.inOrder
    /\ last.upload.unreportedJerseys = {}

\* What the code does keep: only a row with jersey number 0 escapes the jersey check.
UploadReportsNonZeroJerseys ==
  last.op = "processBulkUpload" =>
    /\ last.outcome = "ok"
    /\ last.upload.inOrder
    /\ last.upload.unreportedJerseys \subseteq {0}

\* ----------------------------------------------------------------------
\* SpecConc: calls of NumProcs clients that overlap.  A call reads (its
\* checks) in one step and writes in a later one; bulk requests and sheets
\* have one row.
\* ----------------------------------------------------------------------
ConcDtos == {P_jon, P_al}

\* calls that have passed their checks and may still insert
PendingInserts == Cardinality({q \in Procs : calls[q].op \notin {"idle", "update"}})

\* room in the model for one more call that inserts
RoomForInsert ==
  /\ seq.player + PendingInserts < MaxPlayers
  /\ seq.playerTeam + PendingInserts < MaxPlayerTeams

\* the call of process p returns
Return(p, op, outcome) ==
  /\ last' = [op |-> op, outcome |-> outcome]
  /\ calls' = [calls EXCEPT ![p] = Idle]

BeginCreate(p, createPlayerDto, confirmDuplicate) ==
  /\ calls[p] = Idle
  /\ RoomForInsert
  /\ \E order \in Orders(PlayerIds(Store)) :
       \E c \in {createChecks(Store, createPlayerDto, confirmDuplicate, RowsIn(Store, order))} :
         IF c # "proceed"
         THEN Return(p, "create", c)
         ELSE /\ calls' = [calls EXCEPT ![p] = [op |-> "create", dto |-> createPlayerDto]]
              /\ UNCHANGED last
  /\ SetStore(Store)

FinishCreate(p) ==
  /\ calls[p].op = "create"
  /\ \E r \in {createInsert(Store, calls[p].dto)} :
       /\ SetStore(r.store)
       /\ Return(p, "create", r.outcome)

BeginCreateForTeam(p, createPlayerDto, teamId, jerseyNumber, confirmDuplicate) ==
  /\ calls[p] = Idle
  /\ RoomForInsert
  /\ \E order \in Orders(PlayerIds(Store)) :
       \E c \in {createForTeamChecks(Store, createPlayerDto, teamId, jerseyNumber,
                                     confirmDuplicate, RowsIn(Store, order))} :
         IF c.outcome # "proceed"
         THEN Return(p, "createForTeam", c.outcome)
         ELSE /\ calls' = [calls EXCEPT ![p] =
                             [op |-> "createForTeam", dto |-> createPlayerDto,
                              teamId |-> teamId, jerseyNumber |-> jerseyNumber,
                              player |-> c.player]]
              /\ UNCHANGED last
  /\ SetStore(Store)

FinishCreateForTeam(p) ==
  /\ calls[p].op = "createForTeam"
  /\ \E r \in {createForTeamWrites(Store, calls[p].dto, calls[p].teamId,
                                   calls[p].jerseyNumber, calls[p].player)} :
       /\ SetStore(r.store)
       /\ Return(p, "createForTeam", r.outcome)

BeginBulkCreateForTeam(p, teamId, playersData) ==
  /\ calls[p] = Idle
  /\ RoomForInsert
  /\ Len(playersData) = 1
  /\ \E order \in Orders(PlayerIds(Store)) :
       \E c \in {bulkCreateForTeamChecks(Store, teamId, playersData)} :
         IF c # "proceed"
         THEN Return(p, "bulkCreateForTeam", c)
         ELSE /\ calls' = [calls EXCEPT ![p] =
                             [op |-> "bulkCreateForTeam", teamId |-> teamId,
                              playersData |-> playersData,
                              player |-> bulkRowChecks(Store, playersData[1],
                                                       RowsIn(Store, order)).player]]
              /\ UNCHANGED last
  /\ SetStore(Store)

FinishBulkCreateForTeam(p) ==
  /\ calls[p].op = "bulkCreateForTeam"
  /\ \E tx \in {bulkRowWrites(TxBegin(Store, 0), calls[p].playersData[1], calls[p].teamId,
                              calls[p].player)} :
       /\ SetStore(TxCommit(Store, tx))
       /\ Return(p, "bulkCreateForTeam", IF tx.err # "" THEN tx.err ELSE "ok")

BeginProcessBulkUpload(p, teamId, rawData) ==
  /\ calls[p] = Idle
  /\ RoomForInsert
  /\ Len(rawData) = 1
  /\ \E order \in Orders(PlayerIds(Store)) :
       IF teamId \notin Teams
       THEN Return(p, "processBulkUpload", "NotFoundException")
       ELSE /\ calls' = [calls EXCEPT ![p] =
                           [op |-> "processBulkUpload", teamId |-> teamId,
                            row |-> uploadRowChecks(Store, teamId, rawData[1],
                                                    RowsIn(Store, order))]]
            /\ UNCHANGED last
  /\ SetStore(Store)

\* the row's error, if any, is in the result; the call returns normally
FinishProcessBulkUpload(p) ==
  /\ calls[p].op = "processBulkUpload"
  /\ \E w \in {uploadRowWrites(Store, calls[p].teamId, 2, calls[p].row, 0)} :
       /\ SetStore(w.store)
       /\ last' = [op |-> "processBulkUpload", outcome |-> "ok", errors |-> w.errors]
       /\ calls' = [calls EXCEPT ![p] = Idle]

BeginUpdate(p, id, email) ==
  /\ calls[p] = Idle
  /\ \E c \in {updateChecks(Store, id, email)} :
       IF c # "proceed"
       THEN Return(p, "update", c)
       ELSE /\ calls' = [calls EXCEPT ![p] = [op |-> "update", id |-> id, email |-> email]]
            /\ UNCHANGED last
  /\ SetStore(Store)

FinishUpdate(p) ==
  /\ calls[p].op = "update"
  /\ \E r \in {updateWrite(Store, calls[p].id, calls[p].email)} :
       /\ SetStore(r.store)
       /\ Return(p, "update", r.outcome)

ConcBulkPayloads == {<<PlayerData(d, j)>> : d \in ConcDtos, j \in Jerseys}

ConcUploadPayloads == {<<SheetRow(d, j)>> : d \in ConcDtos, j \in {NoCell} \cup Jerseys}

NextConc ==
  \E p \in Procs :
    \/ \E dto \in ConcDtos, c \in BOOLEAN : BeginCreate(p, dto, c)
    \/ FinishCreate(p)
    \/ \E dto \in ConcDtos, t \in CalledTeams, j \in Jerseys, c \in BOOLEAN :
         BeginCreateForTeam(p, dto, t, j, c)
    \/ FinishCreateForTeam(p)
    \/ \E t \in CalledTeams, playersData \in ConcBulkPayloads : BeginBulkCreateForTeam(p, t, playersData)
    \/ FinishBulkCreateForTeam(p)
    \/ \E t \in CalledTeams, rawData \in ConcUploadPayloads : BeginProcessBulkUpload(p, t, rawData)
    \/ FinishProcessBulkUpload(p)
    \/ \E id \in AnyIds, email \in {Null, Email_a} : BeginUpdate(p, id, email)
    \/ FinishUpdate(p)

SpecConc == Init /\ [][NextConc]_vars

\* C9: in every reachable state, the states reached by overlapping create, createForTeam,
\* bulkCreateForTeam, processBulkUpload and update calls for the same person included, no
\* two player rows carry the same non-null email.
C9_EmailsDistinct ==
  \A a, b \in players : (a.email # Null /\ a.email = b.email) => a = b

\* Two calls passed their email checks, and the insert or update that came second was
\* refused by the unique index while the first one's row holds the email.
C9_Witness ==
  /\ last.op \in {"create", "createForTeam", "bulkCreateForTeam", "update"}
  /\ last.outcome = "P2002"
  /\ \E a \in players : a.email = Email_a

\* ----------------------------------------------------------------------
\* Claims about the bulk paths and the single-record paths (Spec)
\* ----------------------------------------------------------------------
\* C11: bulkCreateForTeam turns a row's jersey conflict into a per-row outcome and
\* continues: a request with pairwise distinct jersey numbers returns normally, and each
\* row whose number was free on the team gets its membership, committed.
C11_BulkConflictPerRow ==
  (last.op = "bulkCreateForTeam" /\ last.bulk.distinctJerseys) =>
    /\ last.outcome = "ok"
    /\ last.bulk.memberships >= last.bulk.freeRows

\* What the code does instead: a request with a taken jersey number is refused whole.
BulkAllOrNothing ==
  last.op = "bulkCreateForTeam" =>
    \/ last.outcome = "ok" /\ last.bulk.memberships = last.bulk.rows
    \/ last.outcome # "ok" /\ last.bulk.memberships = 0 /\ last.bulk.inserted = 0

\* C12: in bulkCreateForTeam and in processBulkUpload a row classified POTENTIAL_DUPLICATE
\* never inserts a player, and the result of the call reports the row with the matched
\* player's id and the similarity score.
C12_PotentialRowsNotInserted ==
  /\ (last.op = "bulkCreateForTeam" /\ last.outcome = "ok") =>
       ~last.bulk.potentialInserted /\ last.bulk.potentialReported
  /\ last.op = "processBulkUpload" =>
       ~last.upload.potentialInserted /\ last.upload.potentialReported

\* A sheet held a row the matcher classified POTENTIAL_DUPLICATE.
C12_Witness ==
  /\ last.op = "processBulkUpload"
  /\ last.upload.potentialRows > 0

\* A bulk request held a row the matcher classified POTENTIAL_DUPLICATE, and returned.
BulkPotentialSeen ==
  /\ last.op = "bulkCreateForTeam"
  /\ last.outcome = "ok"
  /\ last.bulk.potentialRows > 0

SingleReturned == last.op \in {"create", "createForTeam"}

\* C13: for a candidate classified POTENTIAL_DUPLICATE, create and createForTeam reject
\* with a conflict and insert neither a player nor a membership unless confirmDuplicate is
\* set; with confirmDuplicate set they insert a new player, subject to the email check
\* (and, in createForTeam, to the jersey check made before it), and do not reuse the
\* matched one.
C13_PotentialNeedsConfirmation ==
  (SingleReturned /\ last.call.matchType = "POTENTIAL_DUPLICATE") =>
    IF ~last.call.confirmDuplicate \/ last.call.emailHeld \/ last.call.jerseyTaken
    THEN /\ last.outcome = "ConflictException"
         /\ last.call.inserted = 0
         /\ last.call.memberships = 0
    ELSE /\ last.outcome = "ok"
         /\ last.call.inserted = 1
         /\ last.op = "createForTeam" => last.call.memberships = 1 /\ last.call.linkedNew

\* createForTeam met a potential duplicate with confirmDuplicate set and inserted a player
\* of its own.
C13_Witness ==
  /\ last.op = "createForTeam"
  /\ last.call.matchType = "POTENTIAL_DUPLICATE"
  /\ last.call.confirmDuplicate
  /\ last.call.inserted = 1

\* create met a potential duplicate without confirmDuplicate.
CreatePotentialRejected ==
  /\ last.op = "create"
  /\ last.call.matchType = "POTENTIAL_DUPLICATE"
  /\ ~last.call.confirmDuplicate

BestScored(c, score) == {p \in Prefiltered(c) : ScoreOf(c, p) = score}

\* C15: when two or more prefiltered rows share the best score (>= 75), findDuplicatePlayer
\* returns the one with the lowest id, in whatever order the store returns the rows.
C15_TieGoesToLowestId ==
  (DedupReturned /\ last.result.matchType = "POTENTIAL_DUPLICATE") =>
    \A p \in BestScored(last.candidate, last.result.similarityScore) :
      last.result.existingPlayer.id <= p.id

\* What the code does keep: the row returned is one of those with the best score.
TieGoesToSomeBest ==
  (DedupReturned /\ last.result.matchType = "POTENTIAL_DUPLICATE") =>
    last.result.existingPlayer \in BestScored(last.candidate, last.result.similarityScore)

\* C16: two calls of findDuplicatePlayer with the same candidate against the same store
\* return the same matchType, existingPlayer, similarityScore and matchedFields.
C16_RepeatedCallSameResult ==
  [][(DedupReturned /\ last'.op = "findDuplicatePlayer" /\ last'.candidate = last.candidate
        /\ players' = players)
       => last'.result = last.result]_vars

\* What the code does keep: the second call returns the same matchType and score.
RepeatedCallSameScore ==
  [][(DedupReturned /\ last'.op = "findDuplicatePlayer" /\ last'.candidate = last.candidate)
       => /\ last'.result.matchType = last.result.matchType
          /\ last'.result.similarityScore = last.result.similarityScore]_vars

\* C17: every result of findDuplicatePlayer is well formed: existingPlayer is not null
\* exactly when matchType is not NO_MATCH, isDuplicate is true exactly when matchType is
\* not NO_MATCH, similarityScore is within 0..100, EXACT_MATCH has score 100 and
\* POTENTIAL_DUPLICATE a score of at least 75.
C17_ResultWellFormed ==
  DedupReturned =>
    /\ last.result.matchType \in {"EXACT_MATCH", "POTENTIAL_DUPLICATE", "NO_MATCH"}
    /\ (last.result.existingPlayer # NullRec) <=> (last.result.matchType # "NO_MATCH")
    /\ last.result.isDuplicate <=> (last.result.matchType # "NO_MATCH")
    /\ last.result.similarityScore >= 0
    /\ last.result.similarityScore <= Pct(100)
    /\ last.result.matchType = "EXACT_MATCH" => last.result.similarityScore = Pct(100)
    /\ last.result.matchType = "POTENTIAL_DUPLICATE" =>
         last.result.similarityScore >= Pct(FUZZY_THRESHOLD)
    /\ last.result.existingPlayer # NullRec => last.result.existingPlayer \in players

\* A call scored rows below the threshold and returned NO_MATCH for them.
C17_Witness ==
  /\ DedupReturned
  /\ last.result.matchType = "NO_MATCH"
  /\ \E p \in Prefiltered(last.candidate) :
       ScoreOf(last.candidate, p) > 0 /\ ScoreOf(last.candidate, p) < Pct(FUZZY_THRESHOLD)

\* ----------------------------------------------------------------------
\* The comparison kernels on their own: one call of StringSimilarity.compare or of
\* compareHeight on texts drawn from small sets
\* ----------------------------------------------------------------------
\* longest text over the letters a and b
KernelLen == 5

\* longest text over a letter, its capital, the space and the full stop
MixedLen == 2

StringsUpTo(chars, n) == UNION {[1..k -> chars] : k \in 0..n}

Text_martha == <<"m", "a", "r", "t", "h", "a">>

Text_marhta == <<"m", "a", "r", "h", "t", "a">>

Text_A_dot_b == <<" ", "A", ".", " ", " ", "b", " ">>

KernelStrings ==
  StringsUpTo({"a", "b"}, KernelLen)
    \cup StringsUpTo({"a", "A", " ", "."}, MixedLen)
    \cup {Text_martha, Text_marhta, Text_jon, Text_john, Text_JON, Text_A_dot_b}

Height_6ft5 == <<"6", "'", "5", "\"">>

Height_77inches == <<"7", "7", " ", "i", "n", "c", "h", "e", "s">>

Height_6ft5_bare == <<"6", "'", "5">>

Height_6_5 == <<"6", " ", "5">>

Height_6dash5 == <<"6", "-", "5">>

Height_77 == <<"7", "7">>

Height_78dq == <<"7", "8", "\"">>

Height_80qq == <<"8", "0", "'", "'">>

Height_6ft8 == <<"6", "'", "8", "\"">>

Height_0in == <<"0", " ", "i", "n">>

Height_tall == <<"t", "a", "l", "l">>

HeightTexts ==
  {Height_6ft5, Height_77inches, Height_77in, Height_6ft5_bare, Height_6_5, Height_6dash5,
   Height_77, Height_78dq, Height_80qq, Height_6ft8, Height_0in, Height_tall, <<>>}

\* The pairs of heights the scaled arithmetic is exact on: both parse to a number, or
\* both are short enough for the string kernel
HeightPairs ==
  {pair \in HeightTexts \X HeightTexts :
     \/ normalizeHeight(pair[1]) > 0 /\ normalizeHeight(pair[2]) > 0
     \/ Len(pair[1]) <= MaxLen /\ Len(pair[2]) <= MaxLen}

InitKernel ==
  /\ players = {}
  /\ playerTeams = {}
  /\ matchStats = {}
  /\ matchPlayers = {}
  /\ seq = [player |-> 0, playerTeam |-> 0]
  /\ calls = NoCalls
  /\ \/ \E str1 \in KernelStrings, str2 \in KernelStrings :
          last = [op |-> "input", kind |-> "strings", arg1 |-> str1, arg2 |-> str2]
     \/ \E pair \in HeightPairs :
          last = [op |-> "input", kind |-> "heights", arg1 |-> pair[1], arg2 |-> pair[2]]

\* StringSimilarity.compare(str1, str2)
Compare ==
  /\ last.op = "input"
  /\ last.kind = "strings"
  /\ \E r \in {compare(last.arg1, last.arg2)} :
       last' = [op |-> "compare", str1 |-> last.arg1, str2 |-> last.arg2, result |-> r]
  /\ UNCHANGED <<players, playerTeams, matchStats, matchPlayers, seq, calls>>

\* compareHeight(height1, height2)
CompareHeight ==
  /\ last.op = "input"
  /\ last.kind = "heights"
  /\ \E r \in {compareHeight(last.arg1, last.arg2)} :
       last' = [op |-> "compareHeight", height1 |-> last.arg1, height2 |-> last.arg2,
                result |-> r]
  /\ UNCHANGED <<players, playerTeams, matchStats, matchPlayers, seq, calls>>

NextKernel ==
  \/ Compare
  \/ CompareHeight

SpecKernel == InitKernel /\ [][NextKernel]_vars

CompareReturned == last.op = "compare"

\* C18: compare(s, s) is 100 for every string s, the empty string and the strings that
\* normalize to the empty string included.
C18_CompareIsReflexive ==
  CompareReturned /\ last.str1 = last.str2 => last.result = Pct(100)

\* compare returned for a string of spaces and punctuation against itself.
C18_Witness ==
  /\ CompareReturned
  /\ last.str1 = last.str2
  /\ last.str1 # <<>>
  /\ normalize(last.str1) = <<>>

\* compare returned for the empty string against itself.
CompareEmptyWithEmpty ==
  CompareReturned /\ last.str1 = <<>> /\ last.str2 = <<>> /\ last.result = Pct(100)

\* C19: compare is symmetric: compare(a, b) equals compare(b, a).
C19_CompareIsSymmetric ==
  CompareReturned => compare(last.str2, last.str1) = last.result

\* compare returned a partial score for two texts of different lengths.
C19_Witness ==
  /\ CompareReturned
  /\ Len(normalize(last.str1)) # Len(normalize(last.str2))
  /\ last.result > 0
  /\ last.result < Pct(100)

\* compare returned a partial score for two texts one of which has two letters swapped.
CompareTransposed ==
  /\ CompareReturned
  /\ last.str1 = Text_martha
  /\ last.str2 = Text_marhta
  /\ last.result > similarity(Text_martha, Text_marhta)
  /\ last.result < Pct(100)

HeightReturned == last.op = "compareHeight"

\* C20: compareHeight of 6'5" and of 77 inches is 100, both texts standing for 77
\* inches.
C20_FeetInchesEqualsInches ==
  HeightReturned /\ last.height1 = Height_6ft5 /\ last.height2 = Height_77inches
    => last.result = Pct(100)

\* What the code computes instead: 6'5" is read as the 5 that precedes its double
\* quote, and the two heights are more than 3 inches apart.
FeetInchesReadAsInches ==
  HeightReturned /\ last.height1 = Height_6ft5 /\ last.height2 = Height_77inches
    => /\ normalizeHeight(last.height1) = 5
       /\ normalizeHeight(last.height2) = 77
       /\ last.result = 0

\* Feet and inches without the double quote are read as feet and inches.
FeetInchesBareEqualsInches ==
  HeightReturned /\ last.height1 = Height_6ft5_bare /\ last.height2 = Height_77inches
    => last.result = Pct(100)

\* ----------------------------------------------------------------------
\* SpecRoster: merges of two players over the memberships, stat rows and roster
\* entries of every team
\* ----------------------------------------------------------------------
\* matches the rows of SpecRoster belong to
NumRosterMatches == 1

RosterMatches == 1..NumRosterMatches

NextRoster ==
  \/ \E p \in KnownIds, t \in Teams, j \in Jerseys : AssignToTeam(p, t, j)
  \/ \E m \in RosterMatches, p \in KnownIds, t \in Teams : RecordMatchStat(m, p, t)
  \/ \E m \in RosterMatches, p \in KnownIds, t \in Teams : AddMatchPlayer(m, p, t)
  \/ \E d \in KnownIds, t \in KnownIds : MergePlayers(d, t, 0)

SpecRoster == InitMerge /\ [][NextRoster]_vars

\* C21: after a successful merge into a target that had at most one active membership
\* per team and at most one roster entry per match, the target still has at most one of
\* each; on a team both players were active on, the target keeps its own membership and
\* the duplicate's is not moved, and in a match both were in, the target keeps its own
\* roster entry and the duplicate's is not moved.
C21_MergeKeepsOnePerTeamAndMatch ==
  [][(/\ last'.op = "mergePlayers"
      /\ last'.outcome = "ok"
      /\ OnePerTeamAndMatch(Store, last'.targetPlayerId)) =>
       /\ OnePerTeamAndMatch(Store', last'.targetPlayerId)
       /\ \A t \in Teams :
            ActiveOn(Store, last'.targetPlayerId, t) # {} =>
              ActiveOn(Store', last'.targetPlayerId, t)
                = ActiveOn(Store, last'.targetPlayerId, t)
       /\ \A m \in Matches :
            RostersIn(Store, last'.targetPlayerId, m) # {} =>
              RostersIn(Store', last'.targetPlayerId, m)
                = RostersIn(Store, last'.targetPlayerId, m)]_vars

\* a merge succeeded for two players that were active on one team and in one match
\* together
C21_Witness ==
  /\ MergeSucceeded
  /\ last.had.targetOne
  /\ last.had.sharedTeam
  /\ last.had.sharedMatch

\* a merge succeeded that moved a membership to a target that was active on another team
MergeMovedMembership ==
  /\ MergeSucceeded
  /\ last.had.targetOne
  /\ last.had.ownTeam
  /\ \E t \in Teams : ActiveOn(Store, last.targetPlayerId, t) = {}

\* C30: mergePlayers succeeds for every pair of distinct existing players, also
\* when both have a stat row for the same match and team: the reassignment of the stat
\* rows does not abort the merge.
C30_MergeNeverAborts ==
  (MergeReturned /\ ~MergeRejected) => last.outcome = "ok"

\* What the code does keep: a merge of two distinct existing players is aborted only by
\* the unique key of match_stat, exactly when both have a stat row for one match and team.
MergeAbortsOnStatClash ==
  (MergeReturned /\ ~MergeRejected) =>
    /\ last.outcome \in {"ok", "P2002"}
    /\ last.outcome = "P2002" <=> last.had.statClash

\* ----------------------------------------------------------------------
\* SpecFault: the two bulk imports over a store that may fail at one write
\* ----------------------------------------------------------------------
\* the rows of a sheet are numbered from 2
FailRows == {0} \cup {i + 1 : i \in 1..MaxRows}

\* a row of a bulk request writes at most a player and a membership
BulkFaults == 0..(MaxRows + MaxRows)

NextFault ==
  \/ \E t \in CalledTeams, rawData \in UploadPayloads, failRow \in FailRows :
       ProcessBulkUpload(t, rawData, failRow)
  \/ \E t \in CalledTeams, playersData \in BulkPayloads, fault \in BulkFaults :
       BulkCreateForTeam(t, playersData, fault)

SpecFault == Init /\ [][NextFault]_vars

\* C22: within one row of a bulk import, inserting the player and inserting its
\* membership are one atomic unit: when the membership insert fails, the player inserted
\* for the row is not left in the store.
C22_RowIsAtomic ==
  /\ last.op = "processBulkUpload" => ~last.upload.halfApplied
  /\ (last.op = "bulkCreateForTeam" /\ last.outcome # "ok") =>
       last.bulk.inserted = 0 /\ last.bulk.memberships = 0

\* What the code does keep: bulkCreateForTeam runs its rows in one transaction, and a
\* failure at any write leaves no player and no membership of the call behind.
BulkRowsAreAtomic ==
  (last.op = "bulkCreateForTeam" /\ last.outcome # "ok") =>
    last.bulk.inserted = 0 /\ last.bulk.memberships = 0

\* bulkCreateForTeam failed at a membership insert after it had inserted a player
BulkFailedAfterInsert ==
  /\ last.op = "bulkCreateForTeam"
  /\ last.outcome = "StoreUnavailable"
  /\ last.bulk.rows = 1
  /\ players = {}

\* ---- claims about the prefilter and the matched fields (SpecDedup) --------
\* the stored record p is one the fuzzy check may score for candidate c
Admitted(c, p) ==
  \/ /\ Len(p.lastName) >= Len(Substring0(c.lastName, 2))
     /\ ToLower(Substring0(p.lastName, 2)) = ToLower(Substring0(c.lastName, 2))
  \/ /\ Len(p.firstName) >= Len(Substring0(c.firstName, 2))
     /\ ToLower(Substring0(p.firstName, 2)) = ToLower(Substring0(c.firstName, 2))
  \/ /\ c.email # Null
     /\ c.email # <<>>
     /\ p.email # Null
     /\ ToLower(p.email) = ToLower(c.email)

\* C23: the fuzzy check returns as POTENTIAL_DUPLICATE only a record whose last name
\* starts with the first two characters of the candidate's last name, or whose first
\* name starts with the first two characters of the candidate's first name, or whose
\* email equals the candidate's email, all regardless of case; a candidate without
\* an email admits no record through the email branch.
C23_OnlyAdmittedRecordsReturned ==
  (DedupReturned /\ last.result.matchType = "POTENTIAL_DUPLICATE") =>
    Admitted(last.candidate, last.result.existingPlayer)

\* a candidate without an email got NO_MATCH although a stored record that no branch
\* admits scores over the threshold
C23_Witness ==
  /\ DedupReturned
  /\ last.candidate.email = Null
  /\ last.result.matchType = "NO_MATCH"
  /\ \E p \in players :
       /\ ~Admitted(last.candidate, p)
       /\ calculatePlayerSimilarity(last.candidate, p).score >= Pct(FUZZY_THRESHOLD)

\* ---- claims about compareHeight (SpecKernel) ------------------------------
\* the score the specification gives to a difference of d inches
ScoreByInchDifference(d) ==
  IF d = 0 THEN Pct(100)
  ELSE IF d = 1 THEN Pct(95)
  ELSE IF d = 2 THEN Pct(85)
  ELSE IF 100 - 10 * d > 0 THEN Pct(100 - 10 * d) ELSE 0

BothHeightsParsed ==
  /\ HeightReturned
  /\ normalizeHeight(last.height1) > 0
  /\ normalizeHeight(last.height2) > 0

\* C25: when both height texts parse to inches, compareHeight scores the absolute
\* difference d: 100 for d = 0, 95 for d = 1, 85 for d = 2, max(0, 100 - 10 d) beyond.
C25_HeightScoredByDifference ==
  BothHeightsParsed =>
    last.result = ScoreByInchDifference(
                    Abs(normalizeHeight(last.height1) - normalizeHeight(last.height2)))

\* what the code does: 100 up to one inch, 80 up to three inches, 0 beyond
HeightScoredInThreeSteps ==
  BothHeightsParsed =>
    last.result \in {Pct(100), Pct(80), 0}

\* heights one inch apart were scored 100
HeightsOneInchApart ==
  /\ BothHeightsParsed
  /\ Abs(normalizeHeight(last.height1) - normalizeHeight(last.height2)) = 1
  /\ last.result = Pct(100)

\* ---- calculatePlayerSimilarity on its own (SpecFields) --------------------
Text_gh == <<"g", "h">>

Email_A_upper == <<"A", "@", "x">>

Phone_556 == <<"5", "5", "6">>

\* The candidates: jon doe with or without each optional field
FieldCandidates ==
  {[firstName |-> Text_jon, lastName |-> Text_doe, dateOfBirth |-> d, email |-> e,
    nationality |-> n, height |-> h, phone |-> ph] :
     d \in {Null, Date_d1}, e \in {Null, Email_a}, n \in {Null, Text_ng},
     h \in {Null, Height_77in}, ph \in {Null, Phone_555}}

\* The stored players they are compared with
FieldPlayers ==
  {[firstName |-> f, lastName |-> Text_doe, dateOfBirth |-> d, email |-> e,
    nationality |-> n, height |-> h, phone |-> ph] :
     f \in {Text_jon, Text_john}, d \in {Null, Date_d1, Date_d2},
     e \in {Null, Email_A_upper, Email_b}, n \in {Null, Text_ng, Text_gh},
     h \in {Null, Height_78dq, Height_80qq}, ph \in {Null, Phone_555, Phone_556}}

InitFields ==
  /\ players = {}
  /\ playerTeams = {}
  /\ matchStats = {}
  /\ matchPlayers = {}
  /\ seq = [player |-> 0, playerTeam |-> 0]
  /\ calls = NoCalls
  /\ \E c \in FieldCandidates, p \in FieldPlayers :
       last = [op |-> "input", kind |-> "profiles", arg1 |-> c, arg2 |-> p]

\* calculatePlayerSimilarity(candidate, existingPlayer)
CalculatePlayerSimilarity ==
  /\ last.op = "input"
  /\ last.kind = "profiles"
  /\ \E r \in {calculatePlayerSimilarity(last.arg1, last.arg2)} :
       last' = [op |-> "calculatePlayerSimilarity", candidate |-> last.arg1,
                existingPlayer |-> last.arg2, result |-> r]
  /\ UNCHANGED <<players, playerTeams, matchStats, matchPlayers, seq, calls>>

NextFields == CalculatePlayerSimilarity

SpecFields == InitFields /\ [][NextFields]_vars

SimilarityReturned == last.op = "calculatePlayerSimilarity"

\* the comparator of the field a matched-field name denotes reached its cutoff
ReachedCutoff(name, c, p) ==
  CASE name = "firstName" -> compare(c.firstName, p.firstName) >= Pct(90)
    [] name = "lastName" -> compare(c.lastName, p.lastName) >= Pct(90)
    [] name \in {"nationality", "nationality_match"} ->
         /\ Truthy(c.nationality)
         /\ Truthy(p.nationality)
         /\ compare(c.nationality, p.nationality) >= Pct(90)
    [] name = "height" ->
         /\ Truthy(c.height)
         /\ Truthy(p.height)
         /\ compareHeight(c.height, p.height) >= Pct(90)
    [] name = "email" ->
         Truthy(c.email) /\ Truthy(p.email) /\ ToLower(c.email) = ToLower(p.email)
    [] name = "phone" ->
         /\ Truthy(c.phone)
         /\ Truthy(p.phone)
         /\ PhoneDigits(c.phone) = PhoneDigits(p.phone)
    [] name = "dateOfBirth" -> c.dateOfBirth # Null /\ c.dateOfBirth = p.dateOfBirth
    [] name = "birthYear" -> TRUE
    [] OTHER -> FALSE

\* C24: every name in matchedFields denotes a field whose comparator reached its
\* cutoff (90 for firstName, lastName, nationality and height, 100 for email and
\* phone, equality for dateOfBirth), the birthYear flag being the only exception.
C24_MatchedFieldsReachedCutoff ==
  SimilarityReturned =>
    \A i \in 1..Len(last.result.matchedFields) :
      ReachedCutoff(last.result.matchedFields[i], last.candidate, last.existingPlayer)

\* what the code does: only the name nationality is pushed below its cutoff
OnlyNationalityBelowCutoff ==
  SimilarityReturned =>
    \A i \in 1..Len(last.result.matchedFields) :
      \/ last.result.matchedFields[i] = "nationality"
      \/ ReachedCutoff(last.result.matchedFields[i], last.candidate, last.existingPlayer)

\* nationality was reported as matched for two nationalities that score 0
NationalityReportedOnMismatch ==
  /\ SimilarityReturned
  /\ \E i \in 1..Len(last.result.matchedFields) :
       last.result.matchedFields[i] = "nationality"
  /\ compare(last.candidate.nationality, last.existingPlayer.nationality) = 0

\* the score of the email field the specification describes
SpecifiedEmailScore(e1, e2) ==
  IF ToLower(e1) = ToLower(e2) THEN Pct(100) ELSE compare(e1, e2)

\* the final score when the email field contributes emailScore
ScoreWithEmail(c, p, emailScore) ==
  With(SumParts(SimilarityParts(c, p), 1), LAMBDA t :
    (t.totalScore - EmailPart(c, p).score + emailScore * W_email) \div t.totalWeight)

\* C26: when both sides have an email the email comparator scores 100 for emails
\* equal regardless of case and otherwise StringSimilarity.compare of the two.
C26_EmailPartialCredit ==
  (SimilarityReturned /\ Truthy(last.candidate.email) /\ Truthy(last.existingPlayer.email)) =>
    last.result.score =
      ScoreWithEmail(last.candidate, last.existingPlayer,
                     SpecifiedEmailScore(last.candidate.email, last.existingPlayer.email))

\* what the code does: an email is worth all of its weight or nothing
EmailAllOrNothing ==
  (SimilarityReturned /\ Truthy(last.candidate.email) /\ Truthy(last.existingPlayer.email)) =>
    last.result.score =
      ScoreWithEmail(last.candidate, last.existingPlayer,
                     IF ToLower(last.candidate.email) = ToLower(last.existingPlayer.email)
                     THEN Pct(100) ELSE 0)

\* two emails that compare above 0 without being equal added nothing to the score
NearEmailScoredZero ==
  /\ SimilarityReturned
  /\ Truthy(last.candidate.email)
  /\ Truthy(last.existingPlayer.email)
  /\ compare(last.candidate.email, last.existingPlayer.email) > 0
  /\ EmailPart(last.candidate, last.existingPlayer).score = 0

\* emails differing only in case were scored 100
EmailEqualIgnoringCase ==
  /\ SimilarityReturned
  /\ Truthy(last.candidate.email)
  /\ last.candidate.email # last.existingPlayer.email
  /\ \E i \in 1..Len(last.result.matchedFields) : last.result.matchedFields[i] = "email"

\* ---- one active membership per player and team (Spec) ---------------------
\* C27: in every state reached through createForTeam, bulkCreateForTeam,
\* processBulkUpload, assignToTeam and removeFromTeam a player has at most one active
\* membership on any team, also when a row links an existing player who is already
\* active on the team under another jersey number.
C27_OneActiveMembershipPerPlayerAndTeam ==
  \A t \in Teams : \A a, b \in ActiveMemberships(t) :
    a.playerId = b.playerId => a = b

PlayerTwiceActive ==
  \E t \in Teams : \E a, b \in ActiveMemberships(t) : a.playerId = b.playerId /\ a # b

\* a step of operation op never gives a player a second active membership on a team
KeepsOnePerPlayerAndTeam(op) ==
  (last'.op = op /\ ~PlayerTwiceActive) => ~PlayerTwiceActive'

\* what the code does keep: the link branch of processBulkUpload looks for an active
\* membership of the matched player on the team before it inserts one
UploadKeepsOnePerPlayerAndTeam == [][KeepsOnePerPlayerAndTeam("processBulkUpload")]_vars

\* removeFromTeam deactivates every active membership of the player on the team
RemoveFromTeamKeepsOnePerPlayerAndTeam == [][KeepsOnePerPlayerAndTeam("removeFromTeam")]_vars

\* ---- one person in two rows of a bulk request (SpecBulk) ------------------
TwinPayloads ==
  Payloads({PlayerData(P_john, 0), PlayerData(P_john, MaxJersey),
            PlayerData(P_jon, 0), PlayerData(P_jon, MaxJersey),
            PlayerData(P_al, 0), PlayerData(P_al, MaxJersey)})

NextBulk ==
  \/ \E t \in CalledTeams, playersData \in TwinPayloads : BulkCreateForTeam(t, playersData, 0)
  \/ \E p \in KnownIds, t \in CalledTeams : RemoveFromTeam(p, t)
  \/ \E p \in KnownIds : Remove(p)

SpecBulk == Init /\ [][NextBulk]_vars

\* C28: when two rows of one bulkCreateForTeam call describe the same person (same
\* first name, last name and date of birth, different jersey numbers) whom the store
\* did not hold, the second row is matched to the player inserted for the first and
\* the call inserts one player for them.
C28_TwinRowsInsertOnePlayer ==
  (last.op = "bulkCreateForTeam" /\ last.outcome = "ok" /\ last.bulk.twinRows) =>
    ~last.bulk.twinsInserted

\* what the code does: the duplicate check reads outside the transaction, so each of
\* the two rows inserts a player, unless the second row has an email, which the
\* email lookup of the transaction finds
TwinRowsInsertTwoPlayers ==
  (last.op = "bulkCreateForTeam" /\ last.outcome = "ok" /\ last.bulk.twinRows) =>
    /\ last.bulk.twinsInserted = last.bulk.twinsWithoutEmail
    /\ last.bulk.inserted = IF last.bulk.twinsWithoutEmail THEN 2 ELSE 1

\* twin rows with an email ended in one player
TwinRowsLinkedByEmail ==
  /\ last.op = "bulkCreateForTeam"
  /\ last.outcome = "ok"
  /\ last.bulk.twinRows
  /\ ~last.bulk.twinsInserted

\* a second bulk request with the person of an earlier, committed request links her
CommittedTwinLinked ==
  /\ last.op = "bulkCreateForTeam"
  /\ last.outcome = "ok"
  /\ last.bulk.inserted = 0
  /\ last.bulk.memberships = 1

\* ---- overlapping calls for one jersey number (SpecJersey) -----------------
\* assignToTeam up to its write: "proceed", or the exception thrown
assignToTeamChecks(s, playerId, teamId, jerseyNumber) ==
  IF FindPlayer(s, playerId) = NullRec \/ teamId \notin Teams THEN "NotFoundException"
  ELSE IF JerseyTaken(s, teamId, jerseyNumber) THEN "ConflictException"
  ELSE "proceed"

\* the write of assignToTeam: playerTeam.update of the row found, by its id, or
\* playerTeam.create
assignToTeamWrite(s, playerId, teamId, jerseyNumber, existing) ==
  IF existing # NullRec
  THEN [s EXCEPT !.playerTeams =
          {IF pt.id = existing.id THEN [pt EXCEPT !.isActive = TRUE] ELSE pt : pt \in @}]
  ELSE CreatePlayerTeam(s, playerId, teamId, jerseyNumber)

BeginAssignToTeam(p, playerId, teamId, jerseyNumber) ==
  /\ calls[p] = Idle
  /\ LET found == ExistingAssociations(Store, playerId, teamId, jerseyNumber)
     IN  \E existing \in (IF found = {} THEN {NullRec} ELSE found) :
           \E c \in {assignToTeamChecks(Store, playerId, teamId, jerseyNumber)} :
             IF c # "proceed"
             THEN Return(p, "assignToTeam", c)
             ELSE /\ existing = NullRec => RoomForInsert
                  /\ calls' = [calls EXCEPT ![p] =
                                 [op |-> "assignToTeam", playerId |-> playerId,
                                  teamId |-> teamId, jerseyNumber |-> jerseyNumber,
                                  existing |-> existing]]
                  /\ UNCHANGED last
  /\ SetStore(Store)

FinishAssignToTeam(p) ==
  /\ calls[p].op = "assignToTeam"
  /\ SetStore(assignToTeamWrite(Store, calls[p].playerId, calls[p].teamId,
                                calls[p].jerseyNumber, calls[p].existing))
  /\ Return(p, "assignToTeam", "ok")

NextJersey ==
  \/ \E p \in Procs :
       \/ \E dto \in ConcDtos, t \in CalledTeams, j \in Jerseys, c \in BOOLEAN :
            BeginCreateForTeam(p, dto, t, j, c)
       \/ FinishCreateForTeam(p)
       \/ \E id \in KnownIds, t \in CalledTeams, j \in Jerseys : BeginAssignToTeam(p, id, t, j)
       \/ FinishAssignToTeam(p)
  \/ \E id \in KnownIds, t \in CalledTeams : RemoveFromTeam(id, t)

SpecJersey == Init /\ [][NextJersey]_vars

\* the active memberships of a team with one jersey number
ActiveWithJersey(teamId, jerseyNumber) ==
  {pt \in ActiveMemberships(teamId) : pt.jerseyNumber = jerseyNumber}

\* C29: two overlapping createForTeam or assignToTeam calls for one team and one jersey
\* number cannot both succeed: whatever the order of their jersey checks and their
\* writes, the team has at most one active membership with that number afterwards.
C29_OverlappingCallsShareNoJersey ==
  \A t \in Teams, j \in Jerseys : Cardinality(ActiveWithJersey(t, j)) <= 1

\* two calls are past their jersey checks for one team and one number
BothPastJerseyCheck ==
  /\ \A p \in Procs : calls[p].op \in {"createForTeam", "assignToTeam"}
  /\ calls[1].teamId = calls[2].teamId
  /\ calls[1].jerseyNumber = calls[2].jerseyNumber

====
